---------------------------- MODULE Spec2Model ----------------------------
(***************************************************************************)
(* reed-tpse: the serial protocol stack of a display device controller.    *)
(*                                                                         *)
(*   - the frame codec of src/src/protocol.cpp (checksum, byte stuffing,   *)
(*     build_frame, parse_response), as operators on byte sequences;       *)
(*   - the Device session of src/src/device.cpp (connect, disconnect,      *)
(*     send_command and the commands built on it), as actions on the       *)
(*     object's fields fd_ and seq_number_ and on the OS handle table;     *)
(*   - Device::find_device, as a process that walks the sorted candidates. *)
(*                                                                         *)
(* Bytes are integers 0..255, byte strings and std::string values are      *)
(* sequences of bytes (ASCII codes; the text is given in a comment).       *)
(***************************************************************************)
EXTENDS Integers, Sequences, FiniteSets, TLC

VARIABLES
  \* ---- one Device object (src/include/reed/device.hpp:54-60)
  fd_,          \* int fd_ = -1: the handle the session refers to
  seq_number_,  \* int seq_number_ = 0
  alive,        \* FALSE once ~Device() has run
  \* ---- the operating system's side
  handles,      \* the handle table: open, closes, next (see connect below)
  \* ---- what the session has done
  wire,         \* one entry per frame given to write(): its AckNumber and
                \* whether the write accepted it in full
  last,         \* the latest operation: its name, the fields before it, the
                \* events it caused, in order, and its result
  \* ---- Device::find_device
  pc,           \* position of the discovery loop
  dirEntries,   \* the names in /dev, in the order directory_iterator gives
  candidates,   \* the paths kept, after std::sort
  idx,          \* index of the candidate the loop is at
  found,        \* the return value of find_device
  probed,       \* the candidates tried so far, in order, with the outcome
  \* ---- the codec, applied to one input
  data,         \* the input byte sequence
  escaped,      \* escape_data(data)
  unescaped,    \* unescape_data(escaped)
  cstage,       \* which codec step has run
  \* ---- build_frame and parse_response, applied to one set of arguments
  fargs,        \* the arguments of build_frame
  built,        \* build_frame of them
  reparsed,     \* parse_response(built)
  fstage,       \* which of the two has run
  \* ---- one call of Device::read_response
  rtimeout,     \* its argument timeout_ms
  rloop,        \* the loop's state: accumulator, clock, counters
  chunks,       \* the chunks read() has returned, in order
  returned,     \* the return value, once the call has returned
  \* ---- parse_response, applied to bytes received
  rxframe,      \* the bytes given to parse_response
  rxparsed,     \* parse_response(rxframe)
  rxother,      \* a second input, made from rxframe
  rxotherparsed,\* parse_response(rxother)
  rxstage,      \* which of these exist
  \* ---- the length prefix of build_frame, for one message size
  msize,        \* message_body.size()
  lprefix,      \* the two length bytes pushed to data_with_length
  lstage,       \* whether they have been computed
  \* ---- the keepalive loop of the command line (src/cli/main.cpp)
  kpc,          \* position of the loop
  g_running,    \* static std::atomic<bool> g_running{true}
  beats,        \* the handshakes the loop has made
  sigpc,        \* the position of the loop when the signal arrived
  sigbeats,     \* the handshakes made when the signal arrived
  \* ---- one invocation of the command line (src/cli/main.cpp)
  cpc,          \* position of main and of the command it runs
  command,      \* the command word of the invocation
  brightness,   \* the brightness the command is given: --brightness or the
                \* configuration's (display), the argument (brightness), the
                \* saved state's (daemon)
  dimmed        \* the set_brightness calls made: the value, the frames written

sessionVars == <<fd_, seq_number_, alive, handles, wire, last>>
findVars == <<pc, dirEntries, candidates, idx, found, probed>>
codecVars == <<data, escaped, unescaped, cstage>>
frameVars == <<fargs, built, reparsed, fstage>>
readVars == <<rtimeout, rloop, chunks, returned>>
parseVars == <<rxframe, rxparsed, rxother, rxotherparsed, rxstage>>
lengthVars == <<msize, lprefix, lstage>>
keepVars == <<kpc, g_running, beats, sigpc, sigbeats>>
cliVars == <<cpc, command, brightness, dimmed>>
vars ==
  <<sessionVars, findVars, codecVars, frameVars, readVars, parseVars, lengthVars, keepVars, cliVars>>

\* std::nullopt
None == [none |-> TRUE]

-----------------------------------------------------------------------------
(* Bounds of the model.                                                    *)

\* longest input byte sequence given to the codec
MaxLen == 4
\* open() calls one run makes on the session
MaxOpens == 3
\* commands one session sends (caps seq_number_)
MaxSeq == 3
\* entries of the device directory
MaxDir == 3
\* longest run of filler bytes given to build_frame as content
MaxPad == 24
\* longest timeout, in milliseconds, given to read_response on its own
MaxTimeout == 2
\* most passes of the read loop within one millisecond of the clock
MaxBurst == 1
\* longest sequence of arbitrary bytes given to parse_response
MaxRx == 5
\* how far the message sizes tried lie from the smallest message and from
\* the first size whose total length leaves the range of uint16_t
MaxNear == 30
\* handshakes the keepalive loop makes at most
MaxBeats == 3
\* entries of /dev during one invocation of the command line
MaxCliDir == 1
\* turns of the keepalive loop during one invocation of the command line
MaxCliBeats == 1

-----------------------------------------------------------------------------
(* Frame codec: src/src/protocol.cpp                                       *)

FRAME_MARKER == 90
ESCAPE_MARKER == 91

\* the byte values the codec treats specially, and two it does not
CodecBytes == {FRAME_MARKER, ESCAPE_MARKER, 1, 2, 0}

\* A for loop over the indices lo..hi, threading the loop's state st through
\* step(st, i). The range is split in halves, the left half evaluated before
\* the right one starts, only to keep the evaluation's nesting shallow; the
\* steps run in index order.
ForRange(step(_, _), st0, lo0, hi0) ==
  LET RECURSIVE Run(_, _, _)
      Run(st, lo, hi) ==
        IF lo > hi THEN st
        ELSE IF lo = hi THEN step(st, lo)
        ELSE LET mid == (lo + hi) \div 2
                 left == Run(st, lo, mid)
             IN IF left = left THEN Run(left, mid + 1, hi) ELSE left
  IN Run(st0, lo0, hi0)

\* for (uint8_t b : data) sum += b; static_cast<uint8_t>(sum & 0xFF). The
\* uint32_t sum wraps modulo 2^32, a multiple of 256, so the low byte is that
\* of the unbounded sum.
calculate_crc(s) ==
  LET add(sum, i) == sum + s[i]
  IN ForRange(add, 0, 1, Len(s)) % 256

\* a framing that stuffs nothing
escape_nothing(s) == s

\* a byte stuffing that encodes the frame marker only
escape_marker_only(s) ==
  LET push(result, i) ==
        IF s[i] = 90 THEN result \o <<91, 1>> ELSE Append(result, s[i])
  IN ForRange(push, <<>>, 1, Len(s))

escape_data(s) ==
  LET push(result, i) ==
        IF s[i] = 90 THEN result \o <<91, 1>>
        ELSE IF s[i] = 91 THEN result \o <<91, 2>>
        ELSE Append(result, s[i])
  IN ForRange(push, <<>>, 1, Len(s))

\* One pass of the loop of unescape_data at index i; skip is set when the
\* body's ++i has consumed the next byte.
UnescapeStep(s, st, i) ==
  IF st.skip THEN [st EXCEPT !.skip = FALSE]
  ELSE IF s[i] = 91 /\ i + 1 <= Len(s)
       THEN IF s[i + 1] = 1 THEN [skip |-> TRUE, result |-> Append(st.result, 90)]
            ELSE IF s[i + 1] = 2 THEN [skip |-> TRUE, result |-> Append(st.result, 91)]
            ELSE [skip |-> FALSE, result |-> Append(st.result, s[i])]
       ELSE [skip |-> FALSE, result |-> Append(st.result, s[i])]

\* a decoder that collapses both escape pairs to the frame marker
UnescapeStepBothToMarker(s, st, i) ==
  IF st.skip THEN [st EXCEPT !.skip = FALSE]
  ELSE IF s[i] = 91 /\ i + 1 <= Len(s) /\ s[i + 1] \in {1, 2}
       THEN [skip |-> TRUE, result |-> Append(st.result, 90)]
       ELSE [skip |-> FALSE, result |-> Append(st.result, s[i])]

unescape_data_wrong(s) ==
  LET step(st, i) == UnescapeStepBothToMarker(s, st, i)
  IN ForRange(step, [skip |-> FALSE, result |-> <<>>], 1, Len(s)).result

unescape_data(s) ==
  LET step(st, i) == UnescapeStep(s, st, i)
  IN ForRange(step, [skip |-> FALSE, result |-> <<>>], 1, Len(s)).result

-----------------------------------------------------------------------------
(* Text: std::string values as byte sequences.                             *)

SP == <<32>>
CRLF == <<13, 10>>
\* "\r\n\r\n"
SEPARATOR == <<13, 10, 13, 10>>
\* "POST"
POST == <<80, 79, 83, 84>>
\* "1"
VERSION_1 == <<49>>
\* "OK"
STATUS_OK == <<79, 75>>
\* "ContentType=json\r\n"
HDR_CONTENT_TYPE == <<67, 111, 110, 116, 101, 110, 116, 84, 121, 112, 101, 61, 106, 115, 111, 110, 13, 10>>
\* "ContentLength="
HDR_CONTENT_LENGTH == <<67, 111, 110, 116, 101, 110, 116, 76, 101, 110, 103, 116, 104, 61>>
\* "AckNumber="
HDR_ACK_NUMBER == <<65, 99, 107, 78, 117, 109, 98, 101, 114, 61>>
\* "unknown"
UNKNOWN == <<117, 110, 107, 110, 111, 119, 110>>

\* operator<< of a non-negative integer: its decimal digits
RECURSIVE ToDecimal(_)
ToDecimal(n) ==
  IF n < 10 THEN <<48 + n>> ELSE ToDecimal(n \div 10) \o <<48 + (n % 10)>>

\* operator<< / serialize of an integer: a sign and the decimal digits
IntText(n) == IF n < 0 THEN <<45>> \o ToDecimal(-n) ELSE ToDecimal(n)

\* std::string::find(pat, from): the first index >= from (1-based) where pat
\* starts, 0 for npos
FindFrom(s, pat, from) ==
  LET hits == {i \in from..(Len(s) - Len(pat) + 1) :
                 SubSeq(s, i, i + Len(pat) - 1) = pat}
  IN IF hits = {} THEN 0 ELSE CHOOSE i \in hits : \A j \in hits : i <= j

\* SpaceBytes: what std::isspace accepts in the "C" locale
\* the first index >= i of s whose byte is in stop, Len(s) + 1 when none is:
\* where a scan from i that passes over the other bytes comes to rest
ScanTo(s, i, stop) ==
  LET hits == {j \in i..Len(s) : s[j] \in stop}
  IN IF hits = {} THEN Len(s) + 1 ELSE CHOOSE j \in hits : \A k \in hits : j <= k

Bytes == 0..255
SpaceBytes == {32, 9, 10, 11, 12, 13}

SkipSpace(s, i) == ScanTo(s, i, Bytes \ SpaceBytes)

WordEnd(s, i) == ScanTo(s, i, SpaceBytes)

\* iss >> version >> status: the first two whitespace-separated words, each
\* empty when the line has none left
FirstTwoWords(line) ==
  LET a == SkipSpace(line, 1)
      b == WordEnd(line, a)
      c == SkipSpace(line, b)
      d == WordEnd(line, c)
  IN [version |-> SubSeq(line, a, b - 1), status |-> SubSeq(line, c, d - 1)]

-----------------------------------------------------------------------------
(* build_frame: src/src/protocol.cpp:57-103                                *)

message_body(request_state, cmd_type, content, version, ack_number) ==
  request_state \o SP \o cmd_type \o SP \o version \o CRLF
    \o HDR_CONTENT_TYPE
    \o HDR_CONTENT_LENGTH \o ToDecimal(Len(content)) \o CRLF
    \o HDR_ACK_NUMBER \o IntText(ack_number) \o CRLF
    \o CRLF \o content

\* static_cast<uint16_t>(message_body.size() + 5)
\* the values a uint16_t holds
UINT16_RANGE == 65536

\* static_cast<uint16_t>(message_body.size() + 5)
total_length_of_size(size) == (size + 5) % UINT16_RANGE

total_length(body) == total_length_of_size(Len(body))

\* the two bytes pushed for total_length, high byte first
length_bytes(n) == <<(n \div 256) % 256, n % 256>>

\* a build that takes the checksum of the bytes after they were escaped
data_with_length_crc_after_escape(body) ==
  LET d == length_bytes(total_length(body)) \o body
  IN d \o <<calculate_crc(escape_data(d))>>

data_with_length(body) ==
  LET d == length_bytes(total_length(body)) \o body
  IN d \o <<calculate_crc(d)>>

build_frame(request_state, cmd_type, content, version, ack_number) ==
  <<FRAME_MARKER>>
    \o escape_data(data_with_length(
         message_body(request_state, cmd_type, content, version, ack_number)))
    \o <<FRAME_MARKER>>

\* the value of compute for key, taken from table when table holds key: the
\* tables below hold values computed once, for the arguments the actions use
Cached(table, key, compute) ==
  IF \E entry \in table : entry.key = key
  THEN (CHOOSE entry \in table : entry.key = key).val
  ELSE compute

-----------------------------------------------------------------------------
(* picojson values and picojson::parse, as parse_response calls it           *)
(* (src/src/protocol.cpp:137-141). The library parses the first value of    *)
(* the text and ignores what follows it. Numbers are the integers here, and *)
(* a string holding a backslash escape is outside the modelled texts.       *)

JNull == [t |-> "null"]
JBool(b) == [t |-> "bool", b |-> b]
JNum(n) == [t |-> "number", n |-> n]
JStr(s) == [t |-> "string", s |-> s]
JArr(a) == [t |-> "array", a |-> a]
\* o: a function from keys (byte strings) to values
JObj(o) == [t |-> "object", o |-> o]

JFail(i) == [ok |-> FALSE, v |-> JNull, i |-> i]
JOk(v, i) == [ok |-> TRUE, v |-> v, i |-> i]

\* input::skip_ws
JSkipWs(s, i) == ScanTo(s, i, Bytes \ {32, 9, 10, 13})

\* input::expect(c): skips white space, consumes c when it is next
JExpect(s, i, c) ==
  LET j == JSkipWs(s, i)
  IN IF j <= Len(s) /\ s[j] = c THEN [ok |-> TRUE, i |-> j + 1]
     ELSE [ok |-> FALSE, i |-> j]

\* _parse_string after the opening quote: the index of the closing quote, 0
\* when the text ends, or a control character or a backslash comes, before it
JStringEnd(s, i) ==
  LET e == ScanTo(s, i, {34, 92} \cup 0..31)
  IN IF e <= Len(s) /\ s[e] = 34 THEN e ELSE 0

JParseString(s, i) ==
  LET e == JStringEnd(s, i)
  IN IF e = 0 THEN JFail(i) ELSE JOk(SubSeq(s, i, e - 1), e + 1)

JDigitsEnd(s, i) == ScanTo(s, i, Bytes \ 48..57)

RECURSIVE JDigitsValue(_)
JDigitsValue(d) ==
  IF d = <<>> THEN 0
  ELSE 10 * JDigitsValue(SubSeq(d, 1, Len(d) - 1)) + (d[Len(d)] - 48)

JParseNumber(s, i) ==
  LET neg == s[i] = 45
      b == IF neg THEN i + 1 ELSE i
      e == JDigitsEnd(s, b)
  IN IF e = b THEN JFail(i)
     ELSE JOk(JNum((IF neg THEN -1 ELSE 1) * JDigitsValue(SubSeq(s, b, e - 1))), e)

JLiteral(s, i, word, v) ==
  IF i + Len(word) - 1 <= Len(s) /\ SubSeq(s, i, i + Len(word) - 1) = word
  THEN JOk(v, i + Len(word)) ELSE JFail(i)

RECURSIVE JParseValue(_, _)
RECURSIVE JParseArrayItems(_, _, _)
RECURSIVE JParseObjectItems(_, _, _)

\* _parse_array: items separated by ',' and closed by ']'
JParseArrayItems(s, i, acc) ==
  LET item == JParseValue(s, i)
  IN IF ~item.ok THEN JFail(i)
     ELSE LET comma == JExpect(s, item.i, 44)
              acc2 == Append(acc, item.v)
          IN IF comma.ok THEN JParseArrayItems(s, comma.i, acc2)
             ELSE LET close == JExpect(s, comma.i, 93)
                  IN IF close.ok THEN JOk(JArr(acc2), close.i) ELSE JFail(i)

\* _parse_object: "key" ':' value, separated by ',' and closed by '}'; a key
\* given twice keeps its last value
JParseObjectItems(s, i, acc) ==
  LET quote == JExpect(s, i, 34)
      key == JParseString(s, quote.i)
      colon == JExpect(s, key.i, 58)
  IN IF ~quote.ok \/ ~key.ok \/ ~colon.ok THEN JFail(i)
     ELSE LET item == JParseValue(s, colon.i)
          IN IF ~item.ok THEN JFail(i)
             ELSE LET acc2 == (key.v :> item.v) @@ acc
                      comma == JExpect(s, item.i, 44)
                  IN IF comma.ok THEN JParseObjectItems(s, comma.i, acc2)
                     ELSE LET close == JExpect(s, comma.i, 125)
                          IN IF close.ok THEN JOk(JObj(acc2), close.i)
                             ELSE JFail(i)

\* _parse: one value
JParseValue(s, i) ==
  LET j == JSkipWs(s, i)
  IN IF j > Len(s) THEN JFail(j)
     ELSE IF s[j] = 110 THEN JLiteral(s, j, <<110, 117, 108, 108>>, JNull)
     ELSE IF s[j] = 102 THEN JLiteral(s, j, <<102, 97, 108, 115, 101>>, JBool(FALSE))
     ELSE IF s[j] = 116 THEN JLiteral(s, j, <<116, 114, 117, 101>>, JBool(TRUE))
     ELSE IF s[j] = 34 THEN
       LET str == JParseString(s, j + 1)
       IN IF str.ok THEN JOk(JStr(str.v), str.i) ELSE JFail(j)
     ELSE IF s[j] = 91 THEN
       LET close == JExpect(s, j + 1, 93)
       IN IF close.ok THEN JOk(JArr(<<>>), close.i)
          ELSE JParseArrayItems(s, j + 1, <<>>)
     ELSE IF s[j] = 123 THEN
       LET close == JExpect(s, j + 1, 125)
       IN IF close.ok THEN JOk(JObj(<<>>), close.i)
          ELSE JParseObjectItems(s, j + 1, <<>>)
     ELSE IF s[j] \in 48..57 \/ s[j] = 45 THEN JParseNumber(s, j)
     ELSE JFail(j)

\* picojson::parse(v, text): err.empty() and the value, or an error
picojson_parse(text) == JParseValue(text, 1)

-----------------------------------------------------------------------------
(* parse_response: src/src/protocol.cpp:105-156                            *)

\* a Response; json is None when the body is empty or does not parse
Response(raw, body, json, version, status) ==
  [raw |-> raw, body |-> body, json |-> json, version |-> version, status |-> status]

\* if (!body.empty()) { picojson::parse(json, body); if (err.empty()) ... }
ParsedJson(body, parsed) == IF body # <<>> /\ parsed.ok THEN parsed.v ELSE None

\* the part of parse_response that splits the message text
ParseMessage(message) ==
  LET separator == FindFrom(message, SEPARATOR, 1)
  IN IF separator # 0
     THEN LET header_part == SubSeq(message, 1, separator - 1)
              body == SubSeq(message, separator + 4, Len(message))
              json == ParsedJson(body, picojson_parse(body))
              first_line_end == FindFrom(header_part, CRLF, 1)
              first_line == IF first_line_end # 0
                            THEN SubSeq(header_part, 1, first_line_end - 1)
                            ELSE header_part
              words == FirstTwoWords(first_line)
          IN Response(message, body, json, words.version, words.status)
     ELSE Response(message, <<>>, None, <<>>, <<>>)

\* parse_response that takes the checksum byte for the last byte of the message
parse_response_keeps_checksum(d) ==
  IF Len(d) < 4 THEN None
  ELSE IF d[1] # FRAME_MARKER \/ d[Len(d)] # FRAME_MARKER THEN None
  ELSE LET payload == unescape_data(SubSeq(d, 2, Len(d) - 1))
       IN IF Len(payload) < 3 THEN None
          ELSE ParseMessage(SubSeq(payload, 3, Len(payload)))

\* parse_response that rejects a message without the separator
parse_response_needs_separator(d) ==
  IF Len(d) < 4 THEN None
  ELSE IF d[1] # FRAME_MARKER \/ d[Len(d)] # FRAME_MARKER THEN None
  ELSE LET payload == unescape_data(SubSeq(d, 2, Len(d) - 1))
       IN IF Len(payload) < 3 THEN None
          ELSE IF FindFrom(SubSeq(payload, 3, Len(payload) - 1), SEPARATOR, 1) = 0 THEN None
          ELSE ParseMessage(SubSeq(payload, 3, Len(payload) - 1))

\* parse_response that rejects a frame whose last byte is not the checksum of
\* the bytes before it
parse_response_checks_crc(d) ==
  IF Len(d) < 4 THEN None
  ELSE IF d[1] # FRAME_MARKER \/ d[Len(d)] # FRAME_MARKER THEN None
  ELSE LET payload == unescape_data(SubSeq(d, 2, Len(d) - 1))
       IN IF Len(payload) < 3 THEN None
          ELSE IF payload[Len(payload)] # calculate_crc(SubSeq(payload, 1, Len(payload) - 1))
          THEN None
          ELSE ParseMessage(SubSeq(payload, 3, Len(payload) - 1))

parse_response(d) ==
  IF Len(d) < 4 THEN None
  ELSE IF d[1] # FRAME_MARKER \/ d[Len(d)] # FRAME_MARKER THEN None
  ELSE LET payload == unescape_data(SubSeq(d, 2, Len(d) - 1))
       IN IF Len(payload) < 3 THEN None
          ELSE ParseMessage(SubSeq(payload, 3, Len(payload) - 1))

-----------------------------------------------------------------------------
(* Command texts: src/src/device.cpp:282, 316-372                          *)

\* conn
CONN ==
  <<99, 111, 110, 110>>
\* brightness
BRIGHTNESS ==
  <<98, 114, 105, 103, 104, 116, 110, 101, 115, 115>>
\* mediaDelete
MEDIA_DELETE ==
  <<109, 101, 100, 105, 97, 68, 101, 108, 101, 116, 101>>
\* waterBlockScreenId
WATER_BLOCK_SCREEN_ID ==
  <<119, 97, 116, 101, 114, 66, 108, 111, 99, 107, 83, 99, 114, 101, 101,
  110, 73, 100>>
\* productId
KEY_productId ==
  <<112, 114, 111, 100, 117, 99, 116, 73, 100>>
\* OS
KEY_OS ==
  <<79, 83>>
\* sn
KEY_sn ==
  <<115, 110>>
\* version
KEY_version ==
  <<118, 101, 114, 115, 105, 111, 110>>
\* app
KEY_app ==
  <<97, 112, 112>>
\* firmware
KEY_firmware ==
  <<102, 105, 114, 109, 119, 97, 114, 101>>
\* hardware
KEY_hardware ==
  <<104, 97, 114, 100, 119, 97, 114, 101>>
\* attribute
KEY_attribute ==
  <<97, 116, 116, 114, 105, 98, 117, 116, 101>>
\* a.mp4
FILE_A ==
  <<97, 46, 109, 112, 52>>
\* b.mp4
FILE_B ==
  <<98, 46, 109, 112, 52>>
\* Full Screen
FULL_SCREEN ==
  <<70, 117, 108, 108, 32, 83, 99, 114, 101, 101, 110>>
\* 2:1
RATIO_2_1 ==
  <<50, 58, 49>>
\* 1:1
RATIO_1_1 ==
  <<49, 58, 49>>
\* Single
PLAY_SINGLE ==
  <<83, 105, 110, 103, 108, 101>>
\* {"Type":"Custom","id":"Customization","media":
CFG_HEAD ==
  <<123, 34, 84, 121, 112, 101, 34, 58, 34, 67, 117, 115, 116, 111, 109, 34,
  44, 34, 105, 100, 34, 58, 34, 67, 117, 115, 116, 111, 109, 105, 122, 97,
  116, 105, 111, 110, 34, 44, 34, 109, 101, 100, 105, 97, 34, 58>>
\* ,"playMode":
CFG_PLAY_MODE ==
  <<44, 34, 112, 108, 97, 121, 77, 111, 100, 101, 34, 58>>
\* ,"ratio":
CFG_RATIO ==
  <<44, 34, 114, 97, 116, 105, 111, 34, 58>>
\* ,"screenMode":
CFG_SCREEN_MODE ==
  <<44, 34, 115, 99, 114, 101, 101, 110, 77, 111, 100, 101, 34, 58>>
\* ,"settings":{"align":"Center","badges":[],"color":"#FFFFFF","filter":{"opacity":0,"value":""},"position":"Top"},"sysinfoDisplay":[]}
CFG_TAIL ==
  <<44, 34, 115, 101, 116, 116, 105, 110, 103, 115, 34, 58, 123, 34, 97,
  108, 105, 103, 110, 34, 58, 34, 67, 101, 110, 116, 101, 114, 34, 44, 34,
  98, 97, 100, 103, 101, 115, 34, 58, 91, 93, 44, 34, 99, 111, 108, 111,
  114, 34, 58, 34, 35, 70, 70, 70, 70, 70, 70, 34, 44, 34, 102, 105, 108,
  116, 101, 114, 34, 58, 123, 34, 111, 112, 97, 99, 105, 116, 121, 34, 58,
  48, 44, 34, 118, 97, 108, 117, 101, 34, 58, 34, 34, 125, 44, 34, 112, 111,
  115, 105, 116, 105, 111, 110, 34, 58, 34, 84, 111, 112, 34, 125, 44, 34,
  115, 121, 115, 105, 110, 102, 111, 68, 105, 115, 112, 108, 97, 121, 34,
  58, 91, 93, 125>>
\* {"value":
OBJ_VALUE ==
  <<123, 34, 118, 97, 108, 117, 101, 34, 58>>
\* {"include":
OBJ_INCLUDE ==
  <<123, 34, 105, 110, 99, 108, 117, 100, 101, 34, 58>>

\* picojson::value(std::string).serialize(): the text in quotes (the modelled
\* texts hold no character that serialize would escape)
SerializeString(str) == <<34>> \o str \o <<34>>

\* picojson::value(array of strings).serialize(): [ "a","b" ] without spaces
SerializeStrings(strs) ==
  LET item(acc, i) ==
        acc \o (IF i > 1 THEN <<44>> ELSE <<>>) \o SerializeString(strs[i])
  IN <<91>> \o ForRange(item, <<>>, 1, Len(strs)) \o <<93>>

\* picojson::value(cfg).serialize(): the keys in std::map order
ScreenConfigText(config) ==
  CFG_HEAD \o SerializeStrings(config.media)
    \o CFG_PLAY_MODE \o SerializeString(config.play_mode)
    \o CFG_RATIO \o SerializeString(config.ratio)
    \o CFG_SCREEN_MODE \o SerializeString(config.screen_mode)
    \o CFG_TAIL

\* picojson::value(obj).serialize() of {"value": <value>}
BrightnessText(value) == OBJ_VALUE \o IntText(value) \o <<125>>

\* picojson::value(obj).serialize() of {"include": [<files>]}
MediaDeleteText(files) == OBJ_INCLUDE \o SerializeStrings(files) \o <<125>>

-----------------------------------------------------------------------------
(* Device::read_response: src/src/device.cpp:177-216                       *)
(*                                                                         *)
(* What the handle does during one timed read is a script: the sequence of *)
(* results poll() would give, each after dt milliseconds of waiting.       *)
(*   data   ret > 0 with POLLIN, read() returns the chunk (1..256 bytes)   *)
(*   empty  ret > 0 with POLLIN, read() returns 0 or -1                    *)
(*   hup    ret > 0 without POLLIN (POLLHUP, POLLERR)                      *)
(*   eintr  ret < 0 with errno = EINTR                                     *)
(*   error  ret < 0 with another errno                                     *)
(* After the script's last event the handle stays silent.                  *)

\* sleep_for(milliseconds(500)) and read_response(1000) in send_command
SETTLE_MS == 500
READ_TIMEOUT_MS == 1000

PollData(dt, chunk) == [kind |-> "data", dt |-> dt, chunk |-> chunk]
PollEvent(kind, dt) == [kind |-> kind, dt |-> dt, chunk |-> <<>>]

\* response.size() >= 2 && response.front() == FRAME_MARKER && response.back() == FRAME_MARKER
FrameComplete(response) ==
  /\ Len(response) >= 2
  /\ response[1] = FRAME_MARKER
  /\ response[Len(response)] = FRAME_MARKER

\* a loop without the deadline test at its head: poll is given what remains
ReadStep_no_deadline(script, timeout_ms, st, i) ==
  IF st.done THEN st
  ELSE LET ev == script[i]
           remaining == timeout_ms - st.elapsed
       IN IF ev.dt >= remaining
          THEN [st EXCEPT !.elapsed = timeout_ms, !.polls = @ + 1]
          ELSE LET st1 == [st EXCEPT !.elapsed = @ + ev.dt, !.polls = @ + 1]
               IN IF ev.kind = "data"
                  THEN LET response == st1.response \o ev.chunk
                       IN [st1 EXCEPT !.response = response,
                                      !.reads = @ + 1,
                                      !.done = FrameComplete(response)]
                  ELSE IF ev.kind = "empty" THEN [st1 EXCEPT !.reads = @ + 1]
                  ELSE IF ev.kind = "error" THEN [st1 EXCEPT !.done = TRUE]
                  ELSE st1

\* a loop that stops as soon as the accumulator ends with the marker
ReadStep_stops_on_marker(script, timeout_ms, st, i) ==
  IF st.done THEN st
  ELSE IF st.elapsed >= timeout_ms THEN [st EXCEPT !.done = TRUE]
  ELSE LET ev == script[i]
           remaining == timeout_ms - st.elapsed
       IN IF ev.dt >= remaining
          THEN [st EXCEPT !.elapsed = timeout_ms, !.polls = @ + 1]
          ELSE LET st1 == [st EXCEPT !.elapsed = @ + ev.dt, !.polls = @ + 1]
               IN IF ev.kind = "data"
                  THEN LET response == st1.response \o ev.chunk
                       IN [st1 EXCEPT !.response = response,
                                      !.reads = @ + 1,
                                      !.done = response[Len(response)] = FRAME_MARKER]
                  ELSE IF ev.kind = "empty" THEN [st1 EXCEPT !.reads = @ + 1]
                  ELSE IF ev.kind = "error" THEN [st1 EXCEPT !.done = TRUE]
                  ELSE st1

\* a loop that keeps the last chunk only
ReadStep_keeps_last_chunk(script, timeout_ms, st, i) ==
  IF st.done THEN st
  ELSE IF st.elapsed >= timeout_ms THEN [st EXCEPT !.done = TRUE]
  ELSE LET ev == script[i]
           remaining == timeout_ms - st.elapsed
       IN IF ev.dt >= remaining
          THEN [st EXCEPT !.elapsed = timeout_ms, !.polls = @ + 1]
          ELSE LET st1 == [st EXCEPT !.elapsed = @ + ev.dt, !.polls = @ + 1]
               IN IF ev.kind = "data"
                  THEN LET response == ev.chunk
                       IN [st1 EXCEPT !.response = response,
                                      !.reads = @ + 1,
                                      !.done = FrameComplete(response)]
                  ELSE IF ev.kind = "empty" THEN [st1 EXCEPT !.reads = @ + 1]
                  ELSE IF ev.kind = "error" THEN [st1 EXCEPT !.done = TRUE]
                  ELSE st1

\* One pass of the while loop with the script's event i as poll's result.
ReadStep(script, timeout_ms, st, i) ==
  IF st.done THEN st
  ELSE IF st.elapsed >= timeout_ms THEN [st EXCEPT !.done = TRUE]
  ELSE LET ev == script[i]
           remaining == timeout_ms - st.elapsed
       IN IF ev.dt >= remaining
          \* poll returns 0 when the remaining time has passed
          THEN [st EXCEPT !.elapsed = timeout_ms, !.polls = @ + 1]
          ELSE LET st1 == [st EXCEPT !.elapsed = @ + ev.dt, !.polls = @ + 1]
               IN IF ev.kind = "data"
                  THEN LET response == st1.response \o ev.chunk
                       IN [st1 EXCEPT !.response = response,
                                      !.reads = @ + 1,
                                      !.done = FrameComplete(response)]
                  ELSE IF ev.kind = "empty" THEN [st1 EXCEPT !.reads = @ + 1]
                  ELSE IF ev.kind = "error" THEN [st1 EXCEPT !.done = TRUE]
                  ELSE st1

\* The loop runs over the script; once the script is used up the last poll
\* waits out the remaining time.
read_response(script, timeout_ms) ==
  LET step(st, i) == ReadStep(script, timeout_ms, st, i)
      st0 == [response |-> <<>>, elapsed |-> 0, polls |-> 0, reads |-> 0,
              done |-> FALSE]
      st == ForRange(step, st0, 1, Len(script))
  IN IF st.done \/ st.elapsed >= timeout_ms THEN st
     ELSE [st EXCEPT !.elapsed = timeout_ms, !.polls = @ + 1]

-----------------------------------------------------------------------------
(* The device's side: what it answers, and how the answer arrives.          *)

\* {"productId":"XR100","OS":"Android","sn":"S1","version":{"app":"1.0","firmware":"2.0"},"attribute":["a",1,"b"]}
BODY_FULL ==
  <<123, 34, 112, 114, 111, 100, 117, 99, 116, 73, 100, 34, 58, 34, 88, 82,
  49, 48, 48, 34, 44, 34, 79, 83, 34, 58, 34, 65, 110, 100, 114, 111, 105,
  100, 34, 44, 34, 115, 110, 34, 58, 34, 83, 49, 34, 44, 34, 118, 101, 114,
  115, 105, 111, 110, 34, 58, 123, 34, 97, 112, 112, 34, 58, 34, 49, 46, 48,
  34, 44, 34, 102, 105, 114, 109, 119, 97, 114, 101, 34, 58, 34, 50, 46, 48,
  34, 125, 44, 34, 97, 116, 116, 114, 105, 98, 117, 116, 101, 34, 58, 91,
  34, 97, 34, 44, 49, 44, 34, 98, 34, 93, 125>>
\* {"productId":"XR100"}
BODY_PRODUCT_ONLY ==
  <<123, 34, 112, 114, 111, 100, 117, 99, 116, 73, 100, 34, 58, 34, 88, 82,
  49, 48, 48, 34, 125>>
\* {}
BODY_EMPTY_OBJECT ==
  <<123, 125>>
\* {"foo":"bar"}
BODY_OTHER_KEY ==
  <<123, 34, 102, 111, 111, 34, 58, 34, 98, 97, 114, 34, 125>>
\* {"productId":""}
BODY_EMPTY_ID ==
  <<123, 34, 112, 114, 111, 100, 117, 99, 116, 73, 100, 34, 58, 34, 34,
  125>>
\* {"productId":"unknown"}
BODY_UNKNOWN_ID ==
  <<123, 34, 112, 114, 111, 100, 117, 99, 116, 73, 100, 34, 58, 34, 117,
  110, 107, 110, 111, 119, 110, 34, 125>>
\* {"productId":7}
BODY_NUMBER_ID ==
  <<123, 34, 112, 114, 111, 100, 117, 99, 116, 73, 100, 34, 58, 55, 125>>
\* {"version":{}}
BODY_VERSION_EMPTY ==
  <<123, 34, 118, 101, 114, 115, 105, 111, 110, 34, 58, 123, 125, 125>>
\* []
BODY_ARRAY ==
  <<91, 93>>
\* x
BODY_NOT_JSON ==
  <<120>>
\* 1 OK 1
TEXT_NO_SEPARATOR ==
  <<49, 32, 79, 75, 32, 49>>

ReplyBodies ==
  {BODY_FULL, BODY_PRODUCT_ONLY, BODY_EMPTY_OBJECT, BODY_OTHER_KEY, BODY_EMPTY_ID,
   BODY_UNKNOWN_ID, BODY_NUMBER_ID, BODY_VERSION_EMPTY, BODY_ARRAY, BODY_NOT_JSON,
   <<>>}

\* a frame around a message text, as the device builds it
FrameOf(text) ==
  <<FRAME_MARKER>> \o escape_data(data_with_length(text)) \o <<FRAME_MARKER>>

\* the device's reply with the given body: first line "1 OK 1"
DeviceReply(body) == build_frame(VERSION_1, STATUS_OK, body, VERSION_1, 0)

\* the reply in one chunk, for each body
OneChunkScripts == {<<PollData(10, DeviceReply(body))>> : body \in ReplyBodies}

\* the other ways a timed read can go
OddScripts ==
  LET reply == DeviceReply(BODY_PRODUCT_ONLY)
  IN {<<>>,
      <<PollData(10, SubSeq(reply, 1, 20)), PollData(10, SubSeq(reply, 21, Len(reply)))>>,
      <<PollData(10, <<FRAME_MARKER, FRAME_MARKER>>)>>,
      <<PollData(10, <<1, 2, 3>>)>>,
      <<PollData(10, FrameOf(TEXT_NO_SEPARATOR))>>,
      <<PollData(10, FrameOf(<<>>))>>,
      <<PollEvent("eintr", 5), PollData(10, reply)>>,
      <<PollEvent("empty", 5), PollEvent("hup", 5), PollData(10, reply)>>,
      <<PollEvent("error", 5), PollData(10, reply)>>,
      <<PollData(READ_TIMEOUT_MS, reply)>>}

RxScripts == OneChunkScripts \cup OddScripts

\* a reply, silence, bytes that are no frame, and a frame around no text
RxBasic ==
  {<<PollData(10, DeviceReply(BODY_EMPTY_OBJECT))>>, <<>>, <<PollData(10, <<1, 2, 3>>)>>,
   <<PollData(10, FrameOf(<<>>))>>}

IoFailed == {[w |-> "short", rx |-> <<>>], [w |-> "error", rx |-> <<>>]}
IoWritten(scripts) == {[w |-> "full", rx |-> rx] : rx \in scripts}
HandshakeIo == IoFailed \cup IoWritten(RxScripts)
CommandIo == IoFailed \cup IoWritten(RxBasic)

BrightnessValues == {0, 100}
FileLists == {<<>>, <<FILE_A, FILE_B>>}
ScreenConfigs ==
  {[media |-> <<FILE_A>>, screen_mode |-> FULL_SCREEN, ratio |-> RATIO_2_1,
    play_mode |-> PLAY_SINGLE],
   [media |-> <<FILE_A, FILE_B>>, screen_mode |-> FULL_SCREEN, ratio |-> RATIO_1_1,
    play_mode |-> PLAY_SINGLE]}

\* the commands the actions below send
Commands ==
  {[cmd_type |-> CONN, content |-> <<>>]}
    \cup {[cmd_type |-> BRIGHTNESS, content |-> BrightnessText(value)] :
            value \in BrightnessValues}
    \cup {[cmd_type |-> MEDIA_DELETE, content |-> MediaDeleteText(files)] :
            files \in FileLists}
    \cup {[cmd_type |-> WATER_BLOCK_SCREEN_ID, content |-> ScreenConfigText(config)] :
            config \in ScreenConfigs}

\* build_frame for each of them and each acknowledgment number in reach
SentFrames ==
  {[key |-> <<POST, c.cmd_type, c.content, n>>,
    val |-> build_frame(POST, c.cmd_type, c.content, VERSION_1, n)] :
     c \in Commands, n \in 1..(MaxSeq + 1)}

\* parse_response for what each script makes the timed read return
ParsedReplies ==
  {[key |-> read_response(rx, READ_TIMEOUT_MS).response,
    val |-> parse_response(read_response(rx, READ_TIMEOUT_MS).response)] :
     rx \in RxScripts}

-----------------------------------------------------------------------------
(* Device::send_command: src/src/device.cpp:218-279                        *)
(*                                                                         *)
(* A session value s holds the object's fields (fd, seq) and the events of *)
(* the operation in progress, in the order they happen. io is what the     *)
(* handle does during the call: io.w the result of write(), io.rx the      *)
(* script of the timed read.                                               *)

\* ssize_t written = write(fd_, frame.data(), frame.size())
WriteResult(w, frame) ==
  IF w = "full" THEN Len(frame)
  ELSE IF w = "short" THEN Len(frame) - 1
  ELSE -1

EvWrite(cmd_type, ack, frame, written) ==
  [e |-> "write", cmd_type |-> cmd_type, ack |-> ack, frame |-> frame,
   written |-> written]
EvDrain == [e |-> "drain"]
EvSleep(ms) == [e |-> "sleep", ms |-> ms]
EvRead(rd) == [e |-> "read", polls |-> rd.polls, reads |-> rd.reads, response |-> rd.response]
EvParse(bytes) == [e |-> "parse", bytes |-> bytes]

Returns(s, ret) == [s |-> s, ret |-> ret]

\* send_command once the frame is built: seq is the number the frame carries,
\* rd what the timed read returns if the call comes to it. This variant counts
\* the command before it checks the transport.
send_command_counts_first(s, cmd_type, wait_response, w, seq, frame, rd) ==
  LET written == WriteResult(w, frame)
      s0 == [s EXCEPT !.seq = seq]
      s1 == [s0 EXCEPT !.events = Append(@, EvWrite(cmd_type, seq, frame, written))]
      s2 == [s1 EXCEPT !.events = Append(@, EvDrain)]
      s3 == [s2 EXCEPT !.events = @ \o <<EvSleep(SETTLE_MS), EvRead(rd)>>]
      s4 == [s3 EXCEPT !.events = Append(@, EvParse(rd.response))]
  IN IF s.fd < 0 THEN Returns(s0, None)
     ELSE IF written # Len(frame) THEN Returns(s1, None)
     ELSE IF ~wait_response THEN Returns(s2, None)
     ELSE IF rd.response = <<>> THEN Returns(s3, None)
     ELSE Returns(s4, Cached(ParsedReplies, rd.response, parse_response(rd.response)))

\* This variant takes the next number only once the write has succeeded.
send_command_counts_success(s, cmd_type, wait_response, w, seq, frame, rd) ==
  LET written == WriteResult(w, frame)
      s1 == [s EXCEPT !.events = Append(@, EvWrite(cmd_type, seq, frame, written))]
      s2 == [s1 EXCEPT !.seq = seq, !.events = Append(@, EvDrain)]
      s3 == [s2 EXCEPT !.events = @ \o <<EvSleep(SETTLE_MS), EvRead(rd)>>]
      s4 == [s3 EXCEPT !.events = Append(@, EvParse(rd.response))]
  IN IF s.fd < 0 THEN Returns(s, None)
     ELSE IF written # Len(frame) THEN Returns(s1, None)
     ELSE IF ~wait_response THEN Returns(s2, None)
     ELSE IF rd.response = <<>> THEN Returns(s3, None)
     ELSE Returns(s4, Cached(ParsedReplies, rd.response, parse_response(rd.response)))

\* This variant returns a response only when its body was parsed as JSON.
send_command_needs_json(s, cmd_type, wait_response, w, seq, frame, rd) ==
  LET written == WriteResult(w, frame)
      s1 == [s EXCEPT !.seq = seq,
                      !.events = Append(@, EvWrite(cmd_type, seq, frame, written))]
      s2 == [s1 EXCEPT !.events = Append(@, EvDrain)]
      s3 == [s2 EXCEPT !.events = @ \o <<EvSleep(SETTLE_MS), EvRead(rd)>>]
      s4 == [s3 EXCEPT !.events = Append(@, EvParse(rd.response))]
      json_or_none(r) == IF r # None /\ r.json = None THEN None ELSE r
  IN IF s.fd < 0 THEN Returns(s, None)
     ELSE IF written # Len(frame) THEN Returns(s1, None)
     ELSE IF ~wait_response THEN Returns(s2, None)
     ELSE IF rd.response = <<>> THEN Returns(s3, None)
     ELSE Returns(s4, json_or_none(Cached(ParsedReplies, rd.response,
                                          parse_response(rd.response))))

\* This variant waits for the response whatever wait_response says.
send_command_always_waits(s, cmd_type, wait_response, w, seq, frame, rd) ==
  LET written == WriteResult(w, frame)
      s1 == [s EXCEPT !.seq = seq,
                      !.events = Append(@, EvWrite(cmd_type, seq, frame, written))]
      s2 == [s1 EXCEPT !.events = Append(@, EvDrain)]
      s3 == [s2 EXCEPT !.events = @ \o <<EvSleep(SETTLE_MS), EvRead(rd)>>]
      s4 == [s3 EXCEPT !.events = Append(@, EvParse(rd.response))]
  IN IF s.fd < 0 THEN Returns(s, None)
     ELSE IF written # Len(frame) THEN Returns(s1, None)
     ELSE IF rd.response = <<>> THEN Returns(s3, None)
     ELSE Returns(s4, Cached(ParsedReplies, rd.response, parse_response(rd.response)))

\* This variant reads before the output queue has drained.
send_command_reads_undrained(s, cmd_type, wait_response, w, seq, frame, rd) ==
  LET written == WriteResult(w, frame)
      s1 == [s EXCEPT !.seq = seq,
                      !.events = Append(@, EvWrite(cmd_type, seq, frame, written))]
      s2 == [s1 EXCEPT !.events = Append(@, EvDrain)]
      s3 == [s1 EXCEPT !.events = @ \o <<EvSleep(SETTLE_MS), EvRead(rd), EvDrain>>]
      s4 == [s3 EXCEPT !.events = Append(@, EvParse(rd.response))]
  IN IF s.fd < 0 THEN Returns(s, None)
     ELSE IF written # Len(frame) THEN Returns(s1, None)
     ELSE IF ~wait_response THEN Returns(s2, None)
     ELSE IF rd.response = <<>> THEN Returns(s3, None)
     ELSE Returns(s4, Cached(ParsedReplies, rd.response, parse_response(rd.response)))

\* This variant goes on after a write that was not complete.
send_command_ignores_short_write(s, cmd_type, wait_response, w, seq, frame, rd) ==
  LET written == WriteResult(w, frame)
      s1 == [s EXCEPT !.seq = seq,
                      !.events = Append(@, EvWrite(cmd_type, seq, frame, written))]
      s2 == [s1 EXCEPT !.events = Append(@, EvDrain)]
      s3 == [s2 EXCEPT !.events = @ \o <<EvSleep(SETTLE_MS), EvRead(rd)>>]
      s4 == [s3 EXCEPT !.events = Append(@, EvParse(rd.response))]
  IN IF s.fd < 0 THEN Returns(s, None)
     ELSE IF ~wait_response THEN Returns(s2, None)
     ELSE IF rd.response = <<>> THEN Returns(s3, None)
     ELSE Returns(s4, Cached(ParsedReplies, rd.response, parse_response(rd.response)))

\* The steps of send_command in the order of the code: the fd_ test, the
\* frame with ++seq_number_ already taken, write, tcdrain, the wait_response
\* test, sleep, read_response, the empty test, parse_response.
send_command_steps(s, cmd_type, wait_response, w, seq, frame, rd) ==
  LET written == WriteResult(w, frame)
      s1 == [s EXCEPT !.seq = seq,
                      !.events = Append(@, EvWrite(cmd_type, seq, frame, written))]
      s2 == [s1 EXCEPT !.events = Append(@, EvDrain)]
      s3 == [s2 EXCEPT !.events = @ \o <<EvSleep(SETTLE_MS), EvRead(rd)>>]
      s4 == [s3 EXCEPT !.events = Append(@, EvParse(rd.response))]
  IN IF s.fd < 0 THEN Returns(s, None)
     ELSE IF written # Len(frame) THEN Returns(s1, None)
     ELSE IF ~wait_response THEN Returns(s2, None)
     ELSE IF rd.response = <<>> THEN Returns(s3, None)
     ELSE Returns(s4, Cached(ParsedReplies, rd.response, parse_response(rd.response)))

send_command(s, request_state, cmd_type, content, wait_response, io) ==
  send_command_steps(
    s, cmd_type, wait_response, io.w, s.seq + 1,
    Cached(SentFrames, <<request_state, cmd_type, content, s.seq + 1>>,
           build_frame(request_state, cmd_type, content, VERSION_1, s.seq + 1)),
    read_response(io.rx, READ_TIMEOUT_MS))

-----------------------------------------------------------------------------
(* Device::handshake and its helpers: src/src/device.cpp:20-42, 281-314    *)

get_string(v, key, def) ==
  IF v.t # "object" THEN def
  ELSE IF key \notin DOMAIN v.o THEN def
  ELSE IF v.o[key].t # "string" THEN def
  ELSE v.o[key].s

has_key(v, key) == v.t = "object" /\ key \in DOMAIN v.o

get_value(v, key) ==
  IF v.t # "object" THEN JNull
  ELSE IF key \notin DOMAIN v.o THEN JNull
  ELSE v.o[key]

\* the strings of an array, in order; other elements are dropped
StringsOf(arr) ==
  LET push(acc, i) == IF arr[i].t = "string" THEN Append(acc, arr[i].s) ELSE acc
  IN ForRange(push, <<>>, 1, Len(arr))

\* DeviceInfo info; then the assignments of handshake(). A std::string member
\* that is not assigned stays empty.
DeviceInfoOf(j) ==
  LET hasVersion == has_key(j, KEY_version)
      v == get_value(j, KEY_version)
      attr_val == get_value(j, KEY_attribute)
  IN [product_id |-> get_string(j, KEY_productId, UNKNOWN),
      os |-> get_string(j, KEY_OS, UNKNOWN),
      serial |-> get_string(j, KEY_sn, UNKNOWN),
      app_version |-> IF hasVersion THEN get_string(v, KEY_app, UNKNOWN) ELSE <<>>,
      firmware |-> IF hasVersion THEN get_string(v, KEY_firmware, UNKNOWN) ELSE <<>>,
      hardware |-> IF hasVersion THEN get_string(v, KEY_hardware, UNKNOWN) ELSE <<>>,
      attributes |-> IF has_key(j, KEY_attribute) /\ attr_val.t = "array"
                     THEN StringsOf(attr_val.a) ELSE <<>>]

\* the result of handshake that builds a DeviceInfo from any response, parsed
\* body or not
handshake_unchecked(r) ==
  IF r.ret = None THEN Returns(r.s, None)
  ELSE Returns(r.s, DeviceInfoOf(IF r.ret.json = None THEN JNull ELSE r.ret.json))

\* if (!resp || !resp->json) return std::nullopt; then the DeviceInfo
handshake_result(r) ==
  IF r.ret = None THEN Returns(r.s, None)
  ELSE IF r.ret.json = None THEN Returns(r.s, None)
  ELSE Returns(r.s, DeviceInfoOf(r.ret.json))

handshake(s, io) == handshake_result(send_command(s, POST, CONN, <<>>, TRUE, io))

-----------------------------------------------------------------------------
(* set_screen_config, set_brightness, delete_media:                        *)
(* src/src/device.cpp:316-372                                              *)

\* a set_screen_config that sends the configuration once
set_screen_config_once(s, config, io1, io2) ==
  send_command(s, POST, WATER_BLOCK_SCREEN_ID, ScreenConfigText(config), TRUE, io2)

\* io1, io2: what the handle does during the first and the second send
set_screen_config(s, config, io1, io2) ==
  LET content == ScreenConfigText(config)
      first == send_command(s, POST, WATER_BLOCK_SCREEN_ID, content, TRUE, io1)
      paused == [first.s EXCEPT !.events = Append(@, EvSleep(SETTLE_MS))]
  IN send_command(paused, POST, WATER_BLOCK_SCREEN_ID, content, TRUE, io2)

set_brightness(s, value, io) ==
  send_command(s, POST, BRIGHTNESS, BrightnessText(value), TRUE, io)

delete_media(s, files, io) ==
  send_command(s, POST, MEDIA_DELETE, MediaDeleteText(files), TRUE, io)

-----------------------------------------------------------------------------
(* Device::connect, disconnect, ~Device: src/src/device.cpp:103-175        *)
(*                                                                         *)
(* The handle table h is the operating system's side: h.open the handles   *)
(* open, h.closes the number of close() calls each handle has had, h.next  *)
(* the handle the next successful open() returns. Every open() that        *)
(* succeeds returns a handle never seen before, so that a handle closed    *)
(* twice, or left open, is told apart from a later one.                    *)

ConnectOutcomes == {"open_fails", "tcgetattr_fails", "tcsetattr_fails", "ok"}

OsOpen(h) ==
  [h EXCEPT !.open = @ \cup {h.next}, !.closes = (h.next :> 0) @@ @, !.next = @ + 1]

OsClose(h, fd) ==
  [h EXCEPT !.open = @ \ {fd}, !.closes[fd] = @ + 1]

\* a connect that resets fd_ after a failed tcgetattr or tcsetattr without
\* closing the handle
connect_leaks_on_failure(fd, h, outcome) ==
  IF outcome = "open_fails" THEN [fd |-> -1, h |-> h, ret |-> FALSE]
  ELSE IF outcome = "ok" THEN [fd |-> h.next, h |-> OsOpen(h), ret |-> TRUE]
  ELSE [fd |-> -1, h |-> OsOpen(h), ret |-> FALSE]

\* fd_ = open(...) whatever fd_ held; a failed tcgetattr or tcsetattr closes
\* the new handle and resets fd_
connect(fd, h, outcome) ==
  IF outcome = "open_fails" THEN [fd |-> -1, h |-> h, ret |-> FALSE]
  ELSE IF outcome = "ok" THEN [fd |-> h.next, h |-> OsOpen(h), ret |-> TRUE]
  ELSE [fd |-> -1, h |-> OsClose(OsOpen(h), h.next), ret |-> FALSE]

\* disconnect() that forgets the handle without closing it
disconnect_forgets(fd, h) == [fd |-> -1, h |-> h]

disconnect(fd, h) ==
  IF fd >= 0 THEN [fd |-> -1, h |-> OsClose(h, fd)]
  ELSE [fd |-> fd, h |-> h]

-----------------------------------------------------------------------------
(* One Device object and the calls a caller makes on it.                    *)

NoHandles == [open |-> {}, closes |-> <<>>, next |-> 0]

Constructed(op) ==
  [op |-> op, fdBefore |-> -1, seqBefore |-> 0, events |-> <<>>, ret |-> None]

SessionInit ==
  /\ fd_ = -1
  /\ seq_number_ = 0
  /\ alive = TRUE
  /\ handles = NoHandles
  /\ wire = <<>>
  /\ last = Constructed("Device")

FindIdle ==
  /\ pc = "idle"
  /\ dirEntries = <<>>
  /\ candidates = <<>>
  /\ idx = 0
  /\ found = None
  /\ probed = <<>>

CodecIdle ==
  /\ data = <<>>
  /\ escaped = <<>>
  /\ unescaped = <<>>
  /\ cstage = "idle"

FrameIdle ==
  /\ fargs = None
  /\ built = <<>>
  /\ reparsed = None
  /\ fstage = "idle"

ReadIdle ==
  /\ rtimeout = 0
  /\ rloop = None
  /\ chunks = <<>>
  /\ returned = None

ParseIdle ==
  /\ rxframe = <<>>
  /\ rxparsed = None
  /\ rxother = <<>>
  /\ rxotherparsed = None
  /\ rxstage = "idle"

LengthIdle ==
  /\ msize = 0
  /\ lprefix = <<>>
  /\ lstage = "idle"

KeepIdle ==
  /\ kpc = "idle"
  /\ g_running = TRUE
  /\ beats = 0
  /\ sigpc = "none"
  /\ sigbeats = 0

CliIdle ==
  /\ cpc = "idle"
  /\ command = "none"
  /\ brightness = 100
  /\ dimmed = <<>>

\* the object's fields at the start of an operation
Session == [fd |-> fd_, seq |-> seq_number_, events |-> <<>>]

\* the frames an operation gave to write(), as wire entries
Written(events) ==
  LET push(acc, i) ==
        IF events[i].e = "write"
        THEN Append(acc, [ack |-> events[i].ack,
                          full |-> events[i].written = Len(events[i].frame)])
        ELSE acc
  IN ForRange(push, <<>>, 1, Len(events))

\* a command has returned r: the fields and the record of the operation
Commanded(op, r) ==
  /\ alive
  /\ seq_number_ < MaxSeq
  /\ r.s.seq <= MaxSeq
  /\ seq_number_' = r.s.seq
  /\ wire' = wire \o Written(r.s.events)
  /\ last' = [op |-> op, fdBefore |-> fd_, seqBefore |-> seq_number_,
              events |-> r.s.events, ret |-> r.ret]
  /\ UNCHANGED <<fd_, alive, handles, findVars, codecVars, frameVars, readVars, parseVars, lengthVars, keepVars, cliVars>>

\* a connect that starts the numbering again
Connect_resets_counter ==
  \E outcome \in ConnectOutcomes :
    LET c == connect(fd_, handles, outcome)
    IN /\ alive
       /\ c.h.next <= MaxOpens
       /\ fd_' = c.fd
       /\ handles' = c.h
       /\ seq_number_' = 0
       /\ last' = [op |-> "connect", fdBefore |-> fd_, seqBefore |-> seq_number_,
                   events |-> <<>>, ret |-> c.ret]
       /\ UNCHANGED <<alive, wire, findVars, codecVars, frameVars, readVars, parseVars, lengthVars, keepVars, cliVars>>

Connect ==
  \E outcome \in ConnectOutcomes :
    LET c == connect(fd_, handles, outcome)
    IN /\ alive
       /\ c.h.next <= MaxOpens
       /\ fd_' = c.fd
       /\ handles' = c.h
       /\ last' = [op |-> "connect", fdBefore |-> fd_, seqBefore |-> seq_number_,
                   events |-> <<>>, ret |-> c.ret]
       /\ UNCHANGED <<seq_number_, alive, wire, findVars, codecVars, frameVars, readVars, parseVars, lengthVars, keepVars, cliVars>>

Disconnect ==
  LET d == disconnect(fd_, handles)
  IN /\ alive
     /\ fd_' = d.fd
     /\ handles' = d.h
     /\ last' = [op |-> "disconnect", fdBefore |-> fd_, seqBefore |-> seq_number_,
                 events |-> <<>>, ret |-> None]
     /\ UNCHANGED <<seq_number_, alive, wire, findVars, codecVars, frameVars, readVars, parseVars, lengthVars, keepVars, cliVars>>

\* ~Device(): disconnect(), and the object is gone
Destroy ==
  LET d == disconnect(fd_, handles)
  IN /\ alive
     /\ alive' = FALSE
     /\ fd_' = d.fd
     /\ handles' = d.h
     /\ last' = [op |-> "~Device", fdBefore |-> fd_, seqBefore |-> seq_number_,
                 events |-> <<>>, ret |-> None]
     /\ UNCHANGED <<seq_number_, wire, findVars, codecVars, frameVars, readVars, parseVars, lengthVars, keepVars, cliVars>>

Handshake == \E io \in HandshakeIo : Commanded("handshake", handshake(Session, io))

SetBrightness ==
  \E value \in BrightnessValues, io \in CommandIo :
    Commanded("set_brightness", set_brightness(Session, value, io))

DeleteMedia ==
  \E files \in FileLists, io \in CommandIo :
    Commanded("delete_media", delete_media(Session, files, io))

SetScreenConfig ==
  \E config \in ScreenConfigs, io1 \in CommandIo, io2 \in CommandIo :
    Commanded("set_screen_config", set_screen_config(Session, config, io1, io2))

\* send_command called directly, without waiting for the response
SendNoWait ==
  \E io \in CommandIo :
    Commanded("send_command", send_command(Session, POST, CONN, <<>>, FALSE, io))

Init == SessionInit /\ FindIdle /\ CodecIdle /\ FrameIdle /\ ReadIdle /\ ParseIdle /\ LengthIdle /\ KeepIdle /\ CliIdle

Next ==
  \/ Connect
  \/ Disconnect
  \/ Destroy
  \/ Handshake
  \/ SetBrightness
  \/ DeleteMedia
  \/ SetScreenConfig
  \/ SendNoWait

Spec == Init /\ [][Next]_vars

-----------------------------------------------------------------------------
(* The codec applied to one input: src/src/protocol.cpp:15-55              *)

\* the byte sequences of length at most n over the bytes in S
SeqsUpTo(S, n) == UNION {[1..k -> S] : k \in 0..n}

CodecInit ==
  /\ data \in SeqsUpTo(CodecBytes, MaxLen)
  /\ escaped = <<>>
  /\ unescaped = <<>>
  /\ cstage = "input"

Escape ==
  /\ cstage = "input"
  /\ escaped' = escape_data(data)
  /\ cstage' = "escaped"
  /\ UNCHANGED <<data, unescaped, sessionVars, findVars, frameVars, readVars, parseVars, lengthVars, keepVars, cliVars>>

Unescape ==
  /\ cstage = "escaped"
  /\ unescaped' = unescape_data(escaped)
  /\ cstage' = "unescaped"
  /\ UNCHANGED <<data, escaped, sessionVars, findVars, frameVars, readVars, parseVars, lengthVars, keepVars, cliVars>>

InitCodec == SessionInit /\ FindIdle /\ CodecInit /\ FrameIdle /\ ReadIdle /\ ParseIdle /\ LengthIdle /\ KeepIdle /\ CliIdle

NextCodec == Escape \/ Unescape

SpecCodec == InitCodec /\ [][NextCodec]_vars

-----------------------------------------------------------------------------
(* build_frame and parse_response applied to one set of arguments:         *)
(* src/src/protocol.cpp:57-156                                             *)

\* {"k":1}
CONTENT_K1 == <<123, 34, 107, 34, 58, 49, 125>>
\* "Z[" and the two escape codes
CONTENT_MARKERS == <<90, 91, 1, 2>>
\* "\r\n\r\nx": content that holds the header separator
CONTENT_SEPARATOR == <<13, 10, 13, 10, 120>>

\* k filler bytes "a"
Pad(k) == [i \in 1..k |-> 97]

\* header tokens: words without white space, and the empty string
FrameTokens == {POST, VERSION_1, STATUS_OK, <<>>}

FrameArgsOf(request_state, cmd_type, content, version, ack_number) ==
  [request_state |-> request_state, cmd_type |-> cmd_type, content |-> content,
   version |-> version, ack_number |-> ack_number]

\* The arguments tried: every combination of a few tokens, contents and
\* numbers, and, for one header, contents of every length up to MaxPad and
\* every one-byte content, which take the length and the checksum through the
\* marker values.
FrameArgs ==
  {FrameArgsOf(rs, ct, content, v, n) :
     rs \in {POST, VERSION_1, <<>>}, ct \in {CONN, STATUS_OK, <<>>},
     content \in {<<>>, CONTENT_K1, BODY_NOT_JSON, CONTENT_MARKERS, CONTENT_SEPARATOR},
     v \in {VERSION_1, <<>>}, n \in {-1, 0, 1}}
    \cup {FrameArgsOf(VERSION_1, STATUS_OK, content, VERSION_1, 1) :
            content \in {Pad(k) : k \in 0..MaxPad} \cup {<<b>> : b \in Bytes}
                          \cup {BODY_FULL}}

FrameInit ==
  /\ fargs \in FrameArgs
  /\ built = <<>>
  /\ reparsed = None
  /\ fstage = "args"

BuildFrame ==
  /\ fstage = "args"
  /\ built' = build_frame(fargs.request_state, fargs.cmd_type, fargs.content,
                          fargs.version, fargs.ack_number)
  /\ fstage' = "built"
  /\ UNCHANGED <<fargs, reparsed, sessionVars, findVars, codecVars, readVars, parseVars, lengthVars, keepVars, cliVars>>

ParseFrame ==
  /\ fstage = "built"
  /\ reparsed' = parse_response(built)
  /\ fstage' = "parsed"
  /\ UNCHANGED <<fargs, built, sessionVars, findVars, codecVars, readVars, parseVars, lengthVars, keepVars, cliVars>>

InitFrame == SessionInit /\ FindIdle /\ CodecIdle /\ FrameInit /\ ReadIdle /\ ParseIdle /\ LengthIdle /\ KeepIdle /\ CliIdle

NextFrame == BuildFrame \/ ParseFrame

SpecFrame == InitFrame /\ [][NextFrame]_vars

-----------------------------------------------------------------------------
(* read_response pass by pass: src/src/device.cpp:177-216                  *)
(*                                                                         *)
(* Each pass of the loop is one step; what poll() gives in that pass is    *)
(* chosen then. The steady clock counts milliseconds and every pass takes  *)
(* time, so at most MaxBurst passes in a row leave the elapsed time as it  *)
(* was. rloop holds the loop's state with two more fields: burst, the      *)
(* passes made since the elapsed time last grew, and ev, how the last pass *)
(* went: a kind of poll result, "timeout" when poll returned 0, "deadline" *)
(* when the test at the head of the loop left it. chunks are the chunks    *)
(* read() has taken from the handle.                                       *)

\* what read() may return at once
ReadChunks == {<<FRAME_MARKER>>, <<1>>, <<FRAME_MARKER, 1>>}

\* what poll() may give in one pass, and after how long
ReadEvents ==
  {PollData(dt, chunk) : dt \in {0, 1}, chunk \in ReadChunks}
    \cup {PollEvent(kind, dt) : kind \in {"empty", "hup", "eintr", "error"}, dt \in {0, 1}}
    \cup {PollEvent("hup", MaxTimeout + 1)}

\* the passes a call can make: some pass in every MaxBurst + 1 takes time
MaxPasses == (MaxTimeout + 1) * (MaxBurst + 1)

ReadInit ==
  /\ rtimeout \in 0..MaxTimeout
  /\ rloop = [response |-> <<>>, elapsed |-> 0, polls |-> 0, reads |-> 0,
              done |-> FALSE, burst |-> 0, ev |-> "start"]
  /\ chunks = <<>>
  /\ returned = None

\* how the pass with poll result ev goes
PassOutcome(ev) ==
  IF rloop.elapsed >= rtimeout THEN "deadline"
  ELSE IF ev.dt >= rtimeout - rloop.elapsed THEN "timeout"
  ELSE ev.kind

\* the loop has made the pass with poll result ev and is in state next
ReadPassed(ev, next) ==
  /\ rloop' = [next EXCEPT !.ev = PassOutcome(ev),
                           !.burst = IF next.elapsed = rloop.elapsed THEN @ + 1 ELSE 0]
  /\ chunks' = IF PassOutcome(ev) = "data" THEN Append(chunks, ev.chunk) ELSE chunks
  /\ UNCHANGED <<rtimeout, returned, sessionVars, findVars, codecVars, frameVars, parseVars, lengthVars, keepVars, cliVars>>

\* one pass of the while loop
ReadPass ==
  /\ ~rloop.done
  /\ rloop.polls < MaxPasses
  /\ \E ev \in ReadEvents :
       /\ (ev.dt = 0 /\ rloop.elapsed < rtimeout) => rloop.burst < MaxBurst
       /\ ReadPassed(ev, ReadStep(<<ev>>, rtimeout, rloop, 1))

\* return response
ReadReturn ==
  /\ rloop.done
  /\ returned = None
  /\ returned' = [bytes |-> rloop.response]
  /\ UNCHANGED <<rtimeout, rloop, chunks, sessionVars, findVars, codecVars, frameVars, parseVars, lengthVars, keepVars, cliVars>>

InitRead ==
  SessionInit /\ FindIdle /\ CodecIdle /\ FrameIdle /\ ReadInit /\ ParseIdle /\ LengthIdle /\ KeepIdle /\ CliIdle

NextRead == ReadPass \/ ReadReturn

\* the loop is the one thread of the call: it goes on until it returns
SpecRead == InitRead /\ [][NextRead]_vars /\ WF_vars(ReadPass) /\ WF_vars(ReadReturn)

-----------------------------------------------------------------------------
(* parse_response applied to bytes received, and to a second input that    *)
(* differs from the first in the length bytes and the checksum byte only:  *)
(* src/src/protocol.cpp:105-156                                            *)

\* the bytes arbitrary inputs are made of: the two marker values and the two
\* escape codes
RxBytes == {FRAME_MARKER, ESCAPE_MARKER, 1, 2}

\* arbitrary short inputs, the device's replies, and frames around a text
\* without separator and around no text
ParseInputs ==
  UNION {[1..k -> RxBytes] : k \in 0..MaxRx}
    \cup {DeviceReply(body) : body \in ReplyBodies}
    \cup {FrameOf(TEXT_NO_SEPARATOR), FrameOf(<<>>)}

\* the values written over the length bytes and the checksum byte
TamperBytes == {0, FRAME_MARKER, 255}

\* the frame around the given interior
FrameAround(payload) == <<FRAME_MARKER>> \o escape_data(payload) \o <<FRAME_MARKER>>

\* the interior with other length bytes and another last byte
Tampered(payload, hi, lo, crc) ==
  <<hi, lo>> \o SubSeq(payload, 3, Len(payload) - 1) \o <<crc>>

ParseInit ==
  /\ rxframe \in ParseInputs
  /\ rxparsed = None
  /\ rxother = <<>>
  /\ rxotherparsed = None
  /\ rxstage = "received"

ParseReceived ==
  /\ rxstage = "received"
  /\ rxparsed' = parse_response(rxframe)
  /\ rxstage' = "parsed"
  /\ UNCHANGED <<rxframe, rxother, rxotherparsed, sessionVars, findVars, codecVars,
                 frameVars, readVars, lengthVars, keepVars, cliVars>>

\* the second input is parsed
ParsedOther(other) ==
  /\ rxother' = other
  /\ rxotherparsed' = parse_response(other)
  /\ rxstage' = "compared"
  /\ UNCHANGED <<rxframe, rxparsed, sessionVars, findVars, codecVars, frameVars,
                 readVars, lengthVars, keepVars, cliVars>>

ParseOther ==
  /\ rxstage = "parsed"
  /\ rxparsed # None
  /\ \E hi \in TamperBytes, lo \in TamperBytes, crc \in TamperBytes :
       ParsedOther(FrameAround(Tampered(
         unescape_data(SubSeq(rxframe, 2, Len(rxframe) - 1)), hi, lo, crc)))

InitParse ==
  SessionInit /\ FindIdle /\ CodecIdle /\ FrameIdle /\ ReadIdle /\ ParseInit /\ LengthIdle /\ KeepIdle /\ CliIdle

NextParse == ParseReceived \/ ParseOther

SpecParse == InitParse /\ [][NextParse]_vars

-----------------------------------------------------------------------------
(* The length prefix build_frame computes, for one size of message_body:   *)
(* src/src/protocol.cpp:74-82                                              *)

\* the size of the shortest message_body: empty tokens and content
MinMessage == Len(message_body(<<>>, <<>>, <<>>, <<>>, 0))

\* the first size for which size + 5 is no uint16_t
WrapMessage == UINT16_RANGE - 5

\* the sizes tried: the shortest messages, and those around the wrap
MessageSizes ==
  MinMessage..(MinMessage + MaxNear)
    \cup (WrapMessage - MaxNear)..(WrapMessage + MaxNear)

LengthInit ==
  /\ msize \in MessageSizes
  /\ lprefix = <<>>
  /\ lstage = "size"

PrefixLength ==
  /\ lstage = "size"
  /\ lprefix' = length_bytes(total_length_of_size(msize))
  /\ lstage' = "prefixed"
  /\ UNCHANGED <<msize, sessionVars, findVars, codecVars, frameVars, readVars, parseVars,
                 keepVars, cliVars>>

InitLength ==
  SessionInit /\ FindIdle /\ CodecIdle /\ FrameIdle /\ ReadIdle /\ ParseIdle /\ LengthInit
    /\ KeepIdle /\ CliIdle

NextLength == PrefixLength

SpecLength == InitLength /\ [][NextLength]_vars

-----------------------------------------------------------------------------
(* The keepalive loop of cmd_display and cmd_daemon_start, and the signal  *)
(* handler: src/cli/main.cpp:16-22, 202-215, 329-338                       *)
(*                                                                         *)
(*   while (g_running) {                         kpc = "while"             *)
(*     sleep_for(seconds(keepalive_interval));   kpc = "sleep"             *)
(*     if (!g_running) break;                    kpc = "check"             *)
(*     device.handshake();                       kpc = "in_flight"         *)
(*   }                                           kpc = "exit"              *)
(*                                                                         *)
(* The handler runs between any two steps of the loop. The loop starts on  *)
(* the connected session that has sent its handshake, the two screen       *)
(* configuration commands and the brightness command.                      *)

\* the commands sent before the loop: handshake, set_screen_config (2), set_brightness
SentBeforeLoop == 4

\* while (g_running)
loop_test(running) == IF running THEN "sleep" ELSE "exit"

\* a loop that does not test the flag after the sleep
after_sleep_unchecked(running) == "in_flight"

\* if (!g_running) break; device.handshake();
after_sleep(running) == IF ~running THEN "exit" ELSE "in_flight"

KeepInit ==
  /\ fd_ = 0
  /\ seq_number_ = SentBeforeLoop
  /\ alive = TRUE
  /\ handles = OsOpen(NoHandles)
  /\ wire \in {[k \in 1..SentBeforeLoop |-> [ack |-> k, full |-> full]] : full \in BOOLEAN}
  /\ last = [op |-> "set_brightness", fdBefore |-> 0, seqBefore |-> SentBeforeLoop - 1,
             events |-> <<>>, ret |-> None]
  /\ kpc = "while"
  /\ g_running = TRUE
  /\ beats = 0
  /\ sigpc = "none"
  /\ sigbeats = 0

KeepWhile ==
  /\ kpc = "while"
  /\ kpc' = loop_test(g_running)
  /\ UNCHANGED <<g_running, beats, sigpc, sigbeats, sessionVars, findVars, codecVars,
                 frameVars, readVars, parseVars, lengthVars, cliVars>>

\* sleep_for returns when the interval has passed
KeepSleep ==
  /\ kpc = "sleep"
  /\ kpc' = "check"
  /\ UNCHANGED <<g_running, beats, sigpc, sigbeats, sessionVars, findVars, codecVars,
                 frameVars, readVars, parseVars, lengthVars, cliVars>>

KeepCheck ==
  /\ kpc = "check"
  /\ g_running => beats < MaxBeats
  /\ kpc' = after_sleep(g_running)
  /\ UNCHANGED <<g_running, beats, sigpc, sigbeats, sessionVars, findVars, codecVars,
                 frameVars, readVars, parseVars, lengthVars, cliVars>>

\* device.handshake() has returned r
KeepHandshaken(r) ==
  /\ seq_number_' = r.s.seq
  /\ wire' = wire \o Written(r.s.events)
  /\ last' = [op |-> "handshake", fdBefore |-> fd_, seqBefore |-> seq_number_,
              events |-> r.s.events, ret |-> r.ret]
  /\ beats' = beats + 1
  /\ kpc' = "while"
  /\ UNCHANGED <<fd_, alive, handles, g_running, sigpc, sigbeats, findVars, codecVars,
                 frameVars, readVars, parseVars, lengthVars, cliVars>>

\* handshake() for each state of the session the loop can call it in, and
\* each behaviour of the handle: values computed once
LoopSessions ==
  {[fd |-> 0, seq |-> n, events |-> <<>>] : n \in SentBeforeLoop..(SentBeforeLoop + MaxBeats)}
LoopHandshakes == [s \in LoopSessions, io \in CommandIo |-> handshake(s, io)]

KeepHandshake ==
  /\ kpc = "in_flight"
  /\ \E io \in CommandIo : KeepHandshaken(LoopHandshakes[Session, io])

\* signal_handler(SIGINT or SIGTERM): g_running = false
Signal ==
  /\ kpc \in {"while", "sleep", "check", "in_flight"}
  /\ sigpc = "none"
  /\ g_running' = FALSE
  /\ sigpc' = kpc
  /\ sigbeats' = beats
  /\ UNCHANGED <<kpc, beats, sessionVars, findVars, codecVars, frameVars, readVars,
                 parseVars, lengthVars, cliVars>>

InitKeep ==
  KeepInit /\ FindIdle /\ CodecIdle /\ FrameIdle /\ ReadIdle /\ ParseIdle /\ LengthIdle
    /\ CliIdle

NextKeep == KeepWhile \/ KeepSleep \/ KeepCheck \/ KeepHandshake \/ Signal

\* the loop is the one thread of the process: each of its steps is taken;
\* sleep_for and handshake return. The signal may never come.
SpecKeep ==
  /\ InitKeep
  /\ [][NextKeep]_vars
  /\ WF_vars(KeepWhile)
  /\ WF_vars(KeepSleep)
  /\ WF_vars(KeepCheck)
  /\ WF_vars(KeepHandshake)

-----------------------------------------------------------------------------
(* Device::find_device: src/src/device.cpp:46-101                          *)

\* "/dev/"
DEV_DIR == <<47, 100, 101, 118, 47>>
\* "ttyACM"
TTY_ACM == <<116, 116, 121, 65, 67, 77>>
\* "ttyACM0"
NAME_ACM0 == <<116, 116, 121, 65, 67, 77, 48>>
\* "ttyACM1"
NAME_ACM1 == <<116, 116, 121, 65, 67, 77, 49>>
\* "ttyACM10"
NAME_ACM10 == <<116, 116, 121, 65, 67, 77, 49, 48>>
\* "ttyACM2"
NAME_ACM2 == <<116, 116, 121, 65, 67, 77, 50>>
\* "ttyS0"
NAME_S0 == <<116, 116, 121, 83, 48>>

DirNames == {NAME_ACM0, NAME_ACM1, NAME_ACM10, NAME_ACM2, NAME_S0}

\* what /dev can hold: up to MaxDir different names, in any order
DirListings ==
  {l \in SeqsUpTo(DirNames, MaxDir) : \A i, j \in 1..Len(l) : i # j => l[i] # l[j]}

\* name.rfind("ttyACM", 0) == 0
HasPrefix(name, prefix) ==
  Len(name) >= Len(prefix) /\ SubSeq(name, 1, Len(prefix)) = prefix

\* the scan of /dev: entry.path().string() of each entry whose name matches
ScanDev(entries) ==
  LET push(acc, i) ==
        IF HasPrefix(entries[i], TTY_ACM) THEN Append(acc, DEV_DIR \o entries[i])
        ELSE acc
  IN ForRange(push, <<>>, 1, Len(entries))

\* std::string operator<: the first differing byte decides, a proper prefix is
\* less
PathLess(a, b) ==
  \E k \in 1..(Len(a) + 1) :
    /\ k <= Len(b)
    /\ \A j \in 1..(k - 1) : a[j] = b[j]
    /\ (k <= Len(a) => a[k] < b[k])

\* a scan that keeps the directory's order
unsorted(c) == c

\* std::sort(candidates.begin(), candidates.end()): the paths in ascending
\* order, built here by inserting each path at its place
SortPaths(c) ==
  LET insert(acc, i) ==
        LET at == Cardinality({j \in 1..Len(acc) : ~PathLess(c[i], acc[j])})
        IN SubSeq(acc, 1, at) \o <<c[i]>> \o SubSeq(acc, at + 1, Len(acc))
  IN ForRange(insert, <<>>, 1, Len(c))

\* an answer taken whatever product id it carries
accepted_any(info) == info # None

\* info && !info->product_id.empty() && info->product_id != "unknown"
Accepted(info) ==
  /\ info # None
  /\ info.product_id # <<>>
  /\ info.product_id # UNKNOWN

\* what a probed port can do during the handshake
ProbeIo ==
  {[w |-> "short", rx |-> <<>>]}
    \cup IoWritten({<<>>} \cup {<<PollData(10, DeviceReply(body))>> :
           body \in {BODY_FULL, BODY_EMPTY_ID, BODY_UNKNOWN_ID, BODY_EMPTY_OBJECT,
                     BODY_NOT_JSON}})

\* before find_device runs there is no Device object and no handle
FindInit ==
  /\ pc = "scan"
  /\ dirEntries \in DirListings
  /\ candidates = <<>>
  /\ idx = 0
  /\ found = None
  /\ probed = <<>>
  /\ fd_ = -1
  /\ seq_number_ = 0
  /\ alive = FALSE
  /\ handles = NoHandles
  /\ wire = <<>>
  /\ last = Constructed("find_device")

\* lines 49-65: the scan, and the return when nothing matched
FindScan ==
  /\ pc = "scan"
  /\ candidates' = ScanDev(dirEntries)
  /\ pc' = IF ScanDev(dirEntries) = <<>> THEN "done" ELSE "sort"
  /\ UNCHANGED <<dirEntries, idx, found, probed, sessionVars, codecVars,
               frameVars, readVars, parseVars, lengthVars, keepVars, cliVars>>

\* line 68
FindSort ==
  /\ pc = "sort"
  /\ candidates' = SortPaths(candidates)
  /\ idx' = 1
  /\ pc' = "loop"
  /\ UNCHANGED <<dirEntries, found, probed, sessionVars, codecVars,
               frameVars, readVars, parseVars, lengthVars, keepVars, cliVars>>

\* lines 75, 80 and 100: the loop takes the next port and constructs dev, or
\* has none left and returns nothing
FindLoop ==
  /\ pc = "loop"
  /\ IF idx > Len(candidates)
     THEN /\ pc' = "done"
          /\ UNCHANGED <<fd_, seq_number_, alive, wire>>
     ELSE /\ pc' = "connect"
          /\ fd_' = -1
          /\ seq_number_' = 0
          /\ alive' = TRUE
          /\ wire' = <<>>
  /\ UNCHANGED <<dirEntries, candidates, idx, found, probed, handles, last,
               codecVars, frameVars, readVars, parseVars, lengthVars, keepVars, cliVars>>

\* lines 81-86: dev.connect(); continue when it fails
FindConnect ==
  \E outcome \in ConnectOutcomes :
    LET c == connect(fd_, handles, outcome)
    IN /\ pc = "connect"
       /\ fd_' = c.fd
       /\ handles' = c.h
       /\ probed' = Append(probed, [port |-> candidates[idx], connected |-> c.ret,
                                    sent |-> 0, frames |-> <<>>, info |-> None])
       /\ pc' = IF c.ret THEN "handshake" ELSE "destroy"
       /\ UNCHANGED <<dirEntries, candidates, idx, found, seq_number_, alive, wire,
                      last, codecVars, frameVars, readVars, parseVars, lengthVars, keepVars, cliVars>>

\* the byte sequences an operation gave to write(), in order
WrittenFrames(events) ==
  LET writes == SelectSeq(events, LAMBDA ev : ev.e = "write")
  IN [i \in 1..Len(writes) |-> writes[i].frame]

\* the handshake of the probed port has returned r
FindHandshaken(r) ==
  /\ seq_number_' = r.s.seq
  /\ wire' = wire \o Written(r.s.events)
  /\ probed' = [probed EXCEPT ![Len(probed)].sent = Len(Written(r.s.events)),
                              ![Len(probed)].frames = WrittenFrames(r.s.events),
                              ![Len(probed)].info = r.ret]
  /\ found' = IF Accepted(r.ret) THEN candidates[idx] ELSE found

\* lines 88-94: dev.handshake(), and return port when the answer is accepted
FindHandshake ==
  /\ pc = "handshake"
  /\ \E io \in ProbeIo : FindHandshaken(handshake(Session, io))
  /\ pc' = "destroy"
  /\ UNCHANGED <<dirEntries, candidates, idx, fd_, alive, handles, last,
               codecVars, frameVars, readVars, parseVars, lengthVars, keepVars, cliVars>>

\* a loop that probes a port again when its handshake was not answered
FindDestroy_retries ==
  LET d == disconnect(fd_, handles)
  IN /\ pc = "destroy"
     /\ alive' = FALSE
     /\ fd_' = d.fd
     /\ handles' = d.h
     /\ IF found # None
        THEN pc' = "done" /\ idx' = idx
        ELSE /\ pc' = "loop"
             /\ idx' = IF probed[Len(probed)].connected /\ probed[Len(probed)].info = None
                        /\ Len(probed) < 2 * MaxDir
                       THEN idx ELSE idx + 1
     /\ UNCHANGED <<dirEntries, candidates, found, probed, seq_number_, wire, last,
                    codecVars, frameVars, readVars, parseVars, lengthVars, keepVars, cliVars>>

\* ~Device() of dev, at continue, at the end of the loop body and at return
FindDestroy ==
  LET d == disconnect(fd_, handles)
  IN /\ pc = "destroy"
     /\ alive' = FALSE
     /\ fd_' = d.fd
     /\ handles' = d.h
     /\ IF found # None
        THEN pc' = "done" /\ idx' = idx
        ELSE pc' = "loop" /\ idx' = idx + 1
     /\ UNCHANGED <<dirEntries, candidates, found, probed, seq_number_, wire, last,
                    codecVars, frameVars, readVars, parseVars, lengthVars, keepVars, cliVars>>

InitFind == FindInit /\ CodecIdle /\ FrameIdle /\ ReadIdle /\ ParseIdle /\ LengthIdle /\ KeepIdle /\ CliIdle

NextFind ==
  \/ FindScan
  \/ FindSort
  \/ FindLoop
  \/ FindConnect
  \/ FindHandshake
  \/ FindDestroy

SpecFind == InitFind /\ [][NextFind]_vars

-----------------------------------------------------------------------------
(* One invocation of the command line without -p, for a command that needs  *)
(* the serial port: src/cli/main.cpp:416-471, and cmd_info, cmd_display,    *)
(* cmd_brightness, cmd_daemon_start                                         *)

\* command == "info" || "display" || "brightness" || "daemon"
SerialCommands == {"info", "display", "brightness", "daemon"}

\* what std::atoi of the argument, the configuration file or the saved state
\* can hold as brightness: the ends of the range and their neighbours
BrightnessInputs == {-1, 0, 100, 101}

\* if (brightness < 0 || brightness > 100) return 1, the first statement of
\* cmd_display and of cmd_brightness; cmd_info and cmd_daemon_start have no
\* such test
range_rejected(cmd, value) ==
  cmd \in {"display", "brightness"} /\ (value < 0 \/ value > 100)

\* main is at find_device; /dev holds at most MaxCliDir entries
CliInit ==
  /\ FindInit
  /\ Len(dirEntries) <= MaxCliDir
  /\ cpc = "detect"
  /\ command \in SerialCommands
  /\ brightness \in BrightnessInputs
  /\ dimmed = <<>>

\* lines 423-433: find_device has returned; return 1 when it found nothing
CliDetected ==
  /\ cpc = "detect"
  /\ pc = "done"
  /\ cpc' = IF found = None THEN "exit" ELSE "command"
  /\ UNCHANGED <<command, brightness, dimmed, sessionVars, findVars, codecVars, frameVars, readVars,
                 parseVars, lengthVars, keepVars>>

\* the returns of a command before its Device exists: the brightness range
\* test of cmd_display and cmd_brightness, the systemd branch and the missing
\* display state of cmd_daemon_start
CliReject ==
  /\ cpc = "command"
  /\ range_rejected(command, brightness) \/ command = "daemon"
  /\ cpc' = "exit"
  /\ UNCHANGED <<command, brightness, dimmed, sessionVars, findVars, codecVars, frameVars, readVars,
                 parseVars, lengthVars, keepVars>>

\* reed::Device device(port, verbose)
CliConstruct ==
  /\ cpc = "command"
  /\ ~range_rejected(command, brightness)
  /\ cpc' = "connect"
  /\ fd_' = -1
  /\ seq_number_' = 0
  /\ alive' = TRUE
  /\ wire' = <<>>
  /\ last' = Constructed("Device")
  /\ UNCHANGED <<command, brightness, dimmed, handles, findVars, codecVars, frameVars, readVars,
                 parseVars, lengthVars, keepVars>>

\* if (!device.connect()) return 1
CliConnect ==
  \E outcome \in ConnectOutcomes :
    LET c == connect(fd_, handles, outcome)
    IN /\ cpc = "connect"
       /\ fd_' = c.fd
       /\ handles' = c.h
       /\ cpc' = IF c.ret THEN "handshake" ELSE "return"
       /\ UNCHANGED <<command, brightness, dimmed, seq_number_, alive, wire, last, findVars, codecVars,
                      frameVars, readVars, parseVars, lengthVars, keepVars>>

\* an operation of the command's session has returned r
CliSent(r) ==
  /\ seq_number_' = r.s.seq
  /\ wire' = wire \o Written(r.s.events)
  /\ UNCHANGED <<command, brightness, fd_, alive, handles, last, findVars, codecVars,
                 frameVars, readVars, parseVars, lengthVars, keepVars>>

\* device.handshake(): cmd_info returns after it, with 1 or 0
CliHandshake ==
  /\ cpc = "handshake"
  /\ cpc' = IF command = "info" THEN "return"
            ELSE IF command = "brightness" THEN "brightness"
            ELSE "configure"
  /\ \E io \in CommandIo : CliSent(handshake(Session, io))
  /\ UNCHANGED dimmed

\* device.set_screen_config(config) of cmd_display and cmd_daemon_start
CliConfigure ==
  /\ cpc = "configure"
  /\ cpc' = "brightness"
  /\ \E config \in ScreenConfigs, io1 \in CommandIo, io2 \in CommandIo :
       CliSent(set_screen_config(Session, config, io1, io2))
  /\ UNCHANGED dimmed

\* set_brightness(brightness) has returned r
CliDimmed(r) ==
  /\ CliSent(r)
  /\ dimmed' = Append(dimmed, [value |-> brightness,
                               frames |-> WrittenFrames(r.s.events)])

\* device.set_brightness(value): cmd_brightness returns after it
CliBrightness ==
  /\ cpc = "brightness"
  /\ cpc' = IF command = "brightness" THEN "return" ELSE "keepalive"
  /\ \E io \in CommandIo : CliDimmed(set_brightness(Session, brightness, io))

\* one turn of the keepalive loop
CliKeepalive ==
  /\ cpc = "keepalive"
  /\ seq_number_ < SentBeforeLoop + MaxCliBeats
  /\ cpc' = "keepalive"
  /\ \E io \in CommandIo : CliSent(handshake(Session, io))
  /\ UNCHANGED dimmed

\* return 0 of cmd_display without --keepalive, or after the loop
CliStop ==
  /\ cpc = "keepalive"
  /\ cpc' = "return"
  /\ UNCHANGED <<command, brightness, dimmed, sessionVars, findVars, codecVars, frameVars, readVars,
                 parseVars, lengthVars, keepVars>>

\* a command whose return skips the destruction of device
CliReturn_early_exit ==
  /\ cpc = "return"
  /\ cpc' = "exit"
  /\ alive' = FALSE
  /\ UNCHANGED <<command, brightness, dimmed, fd_, handles, seq_number_, wire, last, findVars, codecVars,
                 frameVars, readVars, parseVars, lengthVars, keepVars>>

\* the return of the command: ~Device() of device
CliReturn ==
  LET d == disconnect(fd_, handles)
  IN /\ cpc = "return"
     /\ cpc' = "exit"
     /\ alive' = FALSE
     /\ fd_' = d.fd
     /\ handles' = d.h
     /\ UNCHANGED <<command, brightness, dimmed, seq_number_, wire, last, findVars, codecVars, frameVars,
                    readVars, parseVars, lengthVars, keepVars>>

InitCli == CliInit /\ CodecIdle /\ FrameIdle /\ ReadIdle /\ ParseIdle /\ LengthIdle /\ KeepIdle

NextCli ==
  \/ FindScan
  \/ FindSort
  \/ FindLoop
  \/ FindConnect
  \/ FindHandshake
  \/ FindDestroy
  \/ CliDetected
  \/ CliReject
  \/ CliConstruct
  \/ CliConnect
  \/ CliHandshake
  \/ CliConfigure
  \/ CliBrightness
  \/ CliKeepalive
  \/ CliStop
  \/ CliReturn

SpecCli == InitCli /\ [][NextCli]_vars

-----------------------------------------------------------------------------
(* Properties of one session, checked under Spec.                           *)

CommandOps == {"handshake", "set_brightness", "delete_media", "set_screen_config",
               "send_command"}

\* the response the last operation's final send_command parsed, None when the
\* call did not come to parse one or the frame was malformed
LastResponse ==
  IF last.events # <<>> /\ last.events[Len(last.events)].e = "parse"
  THEN Cached(ParsedReplies, last.events[Len(last.events)].bytes,
              parse_response(last.events[Len(last.events)].bytes))
  ELSE None

\* C1, as the specification states it: the Nth send_command whose frame was
\* fully written carries acknowledgment number N.
C1_NthWrittenCarriesN ==
  \A k \in 1..Len(wire) :
    wire[k].full => wire[k].ack = Cardinality({j \in 1..k : wire[j].full})

\* C1, amended: the Nth send_command made on an open transport carries
\* acknowledgment number N whether or not its write succeeds, so the numbers
\* of the frames given to write() strictly increase and never repeat, and the
\* counter equals the number of such calls.
C1_NthAttemptCarriesN ==
  /\ \A k \in 1..Len(wire) : wire[k].ack = k
  /\ \A j, k \in 1..Len(wire) : j < k => wire[j].ack < wire[k].ack
  /\ seq_number_ = Len(wire)

\* a failed write, and a later command fully written
C1_FailedWriteThenWritten ==
  \E j, k \in 1..Len(wire) : j < k /\ ~wire[j].full /\ wire[k].full

\* C2: the session owns at most one open handle; every handle that is open
\* is the one the session references.
C2_OnlyTheHeldHandleIsOpen ==
  /\ Cardinality(handles.open) <= 1
  /\ handles.open \subseteq {fd_}

\* the DeviceInfo whose scalar fields are all "unknown", without attributes
AllUnknown ==
  [product_id |-> UNKNOWN, os |-> UNKNOWN, serial |-> UNKNOWN,
   app_version |-> UNKNOWN, firmware |-> UNKNOWN, hardware |-> UNKNOWN,
   attributes |-> <<>>]

ExpectedKeys == {KEY_productId, KEY_OS, KEY_sn, KEY_version, KEY_attribute}

\* C3: when the body of the response parses and holds none of the expected
\* keys, handshake returns the DeviceInfo with every scalar field "unknown"
\* and no attributes.
C3_AllUnknownWithoutExpectedKeys ==
  (/\ last.op = "handshake"
   /\ LastResponse # None
   /\ LastResponse.json # None
   /\ \A key \in ExpectedKeys : ~has_key(LastResponse.json, key))
  => last.ret = AllUnknown

\* C4: handshake returns nothing unless its send_command returned a response
\* that carries a parsed body.
C4_NothingWithoutParsedBody ==
  (/\ last.op = "handshake"
   /\ \/ LastResponse = None
      \/ LastResponse.json = None)
  => last.ret = None

\* a handshake whose response arrived well-framed, without a parsed body
C4_ResponseWithoutBody ==
  /\ last.op = "handshake"
  /\ LastResponse # None
  /\ LastResponse.json = None
  /\ last.ret = None

\* C8, as the specification states it: a command on a session without an
\* open transport returns nothing immediately, having done nothing at all, and
\* leaves the sequence counter as it was.
C8_ClosedTransportReturnsAtOnce ==
  (last.op \in CommandOps /\ last.fdBefore < 0)
  => /\ last.ret = None
     /\ last.events = <<>>
     /\ seq_number_ = last.seqBefore

\* C8, amended: a command on a session without an open transport returns
\* nothing, has written nothing and read nothing, and leaves the sequence
\* counter as it was; it returns at once, except set_screen_config, which
\* still sleeps SETTLE_MS between its two attempts.
C8_ClosedTransportDoesNothing ==
  (last.op \in CommandOps /\ last.fdBefore < 0)
  => /\ last.ret = None
     /\ \A i \in 1..Len(last.events) : last.events[i].e = "sleep"
     /\ last.events = IF last.op = "set_screen_config" THEN <<EvSleep(SETTLE_MS)>>
                      ELSE <<>>
     /\ seq_number_ = last.seqBefore

\* set_screen_config called after the session's handle was closed
C8_CommandAfterClose ==
  /\ last.op = "set_screen_config"
  /\ last.fdBefore < 0
  /\ \E h \in DOMAIN handles.closes : handles.closes[h] > 0

\* C9: disconnect is idempotent, so that once the session is destroyed every
\* handle it opened has been closed exactly once, and none is ever closed
\* twice.
C9_EveryHandleClosedOnce ==
  /\ \A h \in DOMAIN handles.closes : handles.closes[h] <= 1
  /\ ~alive => \A h \in DOMAIN handles.closes : handles.closes[h] = 1

-----------------------------------------------------------------------------
(* Properties of find_device, checked under SpecFind.                       *)

\* the paths find_device has to consider
CandidatePaths ==
  {DEV_DIR \o dirEntries[i] : i \in {j \in 1..Len(dirEntries) :
                                       HasPrefix(dirEntries[j], TTY_ACM)}}

\* the probe met the acceptance condition
Met(probe) ==
  /\ probe.connected
  /\ probe.info # None
  /\ probe.info.product_id # <<>>
  /\ probe.info.product_id # UNKNOWN

\* C5: the ports are probed in ascending lexicographic order without a gap,
\* the returned path is the first whose probe is accepted, and no port that
\* sorts after it is opened or sent a command.
C5_ProbesInOrderUpToFirstAccepted ==
  /\ \A k \in 1..Len(probed) :
       {path \in CandidatePaths : PathLess(path, probed[k].port)}
         = {probed[j].port : j \in 1..(k - 1)}
  /\ \A j, k \in 1..Len(probed) : j < k => PathLess(probed[j].port, probed[k].port)
  /\ found # None =>
       /\ found = probed[Len(probed)].port
       /\ \A k \in 1..(Len(probed) - 1) : ~Met(probed[k])
       /\ \A k \in 1..Len(probed) : ~PathLess(found, probed[k].port)

\* three ports listed out of order, only the last in sorted order accepted
C5_ThirdOfThreeReturned ==
  /\ pc = "done"
  /\ found # None
  /\ Len(probed) = 3
  /\ PathLess(DEV_DIR \o dirEntries[2], DEV_DIR \o dirEntries[1])

\* C6: find_device returns a path only if that port connected and its
\* handshake returned a product id that is neither empty nor "unknown"; it
\* returns nothing when no port is a candidate or none meets that.
C6_ReturnsOnlyAccepted ==
  pc = "done" =>
    /\ found # None =>
         \E k \in 1..Len(probed) : probed[k].port = found /\ Met(probed[k])
    /\ found = None =>
         /\ \A k \in 1..Len(probed) : ~Met(probed[k])
         /\ {probed[k].port : k \in 1..Len(probed)} = CandidatePaths
    /\ CandidatePaths = {} => found = None

\* nothing returned although a port answered, with a placeholder or empty
\* product id
C6_PlaceholderRejected ==
  /\ pc = "done"
  /\ found = None
  /\ \E k \in 1..Len(probed) :
       /\ probed[k].info # None
       /\ probed[k].info.product_id \in {<<>>, UNKNOWN}

\* C7: during find_device at most one handle is open; none is open when the
\* loop moves to the next port or when find_device has returned.
C7_OneHandleDuringDiscovery ==
  /\ Cardinality(handles.open) <= 1
  /\ pc \in {"loop", "done"} => handles.open = {}

\* find_device has returned after two ports were opened in turn
C7_TwoPortsOpenedInTurn ==
  /\ pc = "done"
  /\ Len(probed) >= 2
  /\ probed[1].connected
  /\ probed[2].connected

\* the send_command calls one operation makes
SendsOf(op) == IF op = "set_screen_config" THEN 2 ELSE 1

\* C29: the sequence counter of a session never decreases and is never reset.
\* connect, disconnect and the destructor leave it unchanged; an operation on
\* a closed transport leaves it unchanged; an operation on an open transport
\* adds one for each send_command call it makes. The frames a session writes
\* are therefore numbered 1, 2, 3, ... over its whole life, across
\* reconnects: the first frame after a reconnect carries the previous number
\* plus one.
C29_CounterOnlyCountsSends ==
  [][/\ seq_number_' >= seq_number_
     /\ last'.op \in {"connect", "disconnect", "~Device"} =>
          seq_number_' = seq_number_ /\ wire' = wire
     /\ last'.op \in CommandOps =>
          /\ fd_ < 0 => seq_number_' = seq_number_ /\ wire' = wire
          /\ fd_ >= 0 => /\ seq_number_' = seq_number_ + SendsOf(last'.op)
                         /\ Len(wire') = Len(wire) + SendsOf(last'.op)
     /\ \A i \in 1..Len(wire') : wire'[i].ack = i
     /\ Len(wire') = seq_number_']_vars

\* a handshake on the second handle of the session, opened after the first
\* was closed, carrying number 2 after the frame numbered 1
C29_SecondNumberAfterReconnect ==
  /\ last.op = "handshake"
  /\ last.fdBefore = 1
  /\ last.seqBefore = 1
  /\ handles.next = 2
  /\ handles.closes[0] = 1
  /\ wire[1].ack = 1
  /\ last.events[1].e = "write"
  /\ last.events[1].ack = 2
  /\ seq_number_ = 2

\* C30: across an invocation of the command line that detects the port, at
\* most one serial handle is open at any time: none is open when find_device
\* has returned and until the command connects its own session, and when the
\* command has returned every handle the invocation opened has been closed,
\* once.
C30_OneHandleAcrossInvocation ==
  /\ Cardinality(handles.open) <= 1
  /\ (cpc = "detect" /\ pc = "done") => handles.open = {}
  /\ cpc \in {"command", "connect"} => handles.open = {}
  /\ cpc \in {"handshake", "configure", "brightness", "keepalive"} =>
       handles.open = {fd_}
  /\ cpc = "exit" =>
       /\ handles.open = {}
       /\ \A fd \in 0..(handles.next - 1) : handles.closes[fd] = 1

\* display has returned after its keepalive loop ran, on the port that
\* find_device returned: the handle of the probe and the handle of the
\* command were open in turn
C30_DisplayAfterProbe ==
  /\ cpc = "exit"
  /\ command = "display"
  /\ found # None
  /\ Len(probed) = 1
  /\ probed[1].connected
  /\ handles.next = 2
  /\ handles.closes[0] = 1
  /\ handles.closes[1] = 1
  /\ seq_number_ > SentBeforeLoop

\* the positions of a command whose Device exists
WithDevice == {"connect", "handshake", "configure", "brightness", "keepalive", "return"}

\* the number of the brightness frame: after the handshake in cmd_brightness,
\* after the handshake and the two configuration frames otherwise
BrightnessAck(cmd) == IF cmd = "brightness" THEN 2 ELSE SentBeforeLoop

\* C31: every value the command line gives to set_brightness is in 0..100,
\* and a command given a brightness outside 0..100 returns before its Device
\* exists: it connects no session and writes no frame.
C31_OnlyValuesInRangeAreSent ==
  /\ \A i \in 1..Len(dimmed) : dimmed[i].value \in 0..100
  /\ (command # "info" /\ brightness \notin 0..100) =>
       /\ cpc \notin WithDevice
       /\ dimmed = <<>>

\* C31, for cmd_display and cmd_brightness alone: the value they give to
\* set_brightness is in 0..100, and given a value outside it they return
\* before their Device exists.
C31_DisplayAndBrightnessCheckTheRange ==
  command \in {"display", "brightness"} =>
    /\ \A i \in 1..Len(dimmed) :
         /\ dimmed[i].value \in 0..100
         /\ \A k \in 1..Len(dimmed[i].frames) :
              dimmed[i].frames[k] =
                build_frame(POST, BRIGHTNESS, BrightnessText(dimmed[i].value),
                            VERSION_1, BrightnessAck(command))
    /\ brightness \notin 0..100 => (cpc \notin WithDevice /\ dimmed = <<>>)

\* the foreground daemon has written the brightness frame for the value 101
\* its saved state holds
C31_DaemonSendsSavedValue ==
  /\ command = "daemon"
  /\ brightness = 101
  /\ Len(dimmed) = 1
  /\ dimmed[1].frames =
       <<build_frame(POST, BRIGHTNESS, BrightnessText(101), VERSION_1, SentBeforeLoop)>>

\* C28: during one find_device run no port is probed twice, so each candidate
\* is opened at most once; each probe sends at most one command, and what it
\* sends is the conn frame with acknowledgment number 1, the first of a fresh
\* session: a port that did not open is sent nothing.
C28_OneProbeOneConnPerPort ==
  /\ \A j, k \in 1..Len(probed) : j # k => probed[j].port # probed[k].port
  /\ handles.next <= Len(probed)
  /\ \A k \in 1..Len(probed) :
       /\ probed[k].sent <= 1
       /\ probed[k].sent = Len(probed[k].frames)
       /\ ~probed[k].connected => probed[k].sent = 0
       /\ \A i \in 1..Len(probed[k].frames) :
            probed[k].frames[i] = build_frame(POST, CONN, <<>>, VERSION_1, 1)
  /\ Len(wire) <= 1
  /\ \A i \in 1..Len(wire) : wire[i].ack = 1
  /\ seq_number_ <= 1

\* three ports probed, none of them answering: each was sent the one frame and
\* the run ended with nothing found
C28_ThreeSilentPortsOneFrameEach ==
  /\ pc = "done"
  /\ found = None
  /\ Len(probed) = 3
  /\ \A k \in 1..3 : probed[k].connected /\ probed[k].sent = 1 /\ probed[k].info = None

-----------------------------------------------------------------------------
(* Properties of the codec, checked under SpecCodec.                        *)

\* C10: unescape_data(escape_data(x)) = x for every byte sequence x.
C10_UnescapeInvertsEscape ==
  cstage = "unescaped" => unescaped = data

\* an input that holds the escape marker followed by one of its codes
C10_InputHoldsEscapePair ==
  /\ cstage = "unescaped"
  /\ \E i \in 1..(Len(data) - 1) : data[i] = ESCAPE_MARKER /\ data[i + 1] \in {1, 2}

-----------------------------------------------------------------------------
(* Properties of build_frame and parse_response, checked under SpecFrame.   *)

\* the bytes build_frame stuffs: length, message and checksum
RawOf(a) ==
  data_with_length(message_body(a.request_state, a.cmd_type, a.content, a.version,
                                a.ack_number))

\* the frame without its first and last byte
Interior == SubSeq(built, 2, Len(built) - 1)

\* C11: the frame build_frame returns begins and ends with 0x5A, and 0x5A is
\* at no position strictly between the first and the last.
C11_MarkerOnlyAtBothEnds ==
  fstage \in {"built", "parsed"} =>
    /\ Len(built) >= 2
    /\ built[1] = 90
    /\ built[Len(built)] = 90
    /\ \A i \in 2..(Len(built) - 1) : built[i] # 90

\* a frame built for content that holds the marker byte
C11_ContentHoldsMarker ==
  /\ fstage = "built"
  /\ \E i \in 1..Len(fargs.content) : fargs.content[i] = 90

\* C12: inside the frame neither 0x5A nor 0x5B stands for itself: 0x5A does
\* not occur, every 0x5B opens a two-byte escape sequence, and each 0x5A or
\* 0x5B of the stuffed bytes has become one such sequence.
C12_MarkerValuesAlwaysEscaped ==
  fstage \in {"built", "parsed"} =>
    /\ \A i \in 1..Len(Interior) :
         /\ Interior[i] # 90
         /\ Interior[i] = 91 => (i < Len(Interior) /\ Interior[i + 1] \in {1, 2})
    /\ Len(Interior) = Len(RawOf(fargs))
         + Cardinality({i \in 1..Len(RawOf(fargs)) : RawOf(fargs)[i] \in {90, 91}})

\* a frame whose checksum byte is the escape value and whose content holds
\* no marker value
C12_ChecksumIsEscapeValue ==
  /\ fstage = "built"
  /\ RawOf(fargs)[Len(RawOf(fargs))] = 91
  /\ \A i \in 1..Len(fargs.content) : fargs.content[i] \notin {90, 91}

\* the header tokens hold no white space
TokensWithoutSpace(a) ==
  \A tok \in {a.request_state, a.cmd_type, a.version} :
    \A i \in 1..Len(tok) : tok[i] \notin SpaceBytes

\* parsing the frame back gave the first two header tokens and the content
RoundTrip ==
  /\ reparsed # None
  /\ reparsed.version = fargs.request_state
  /\ reparsed.status = fargs.cmd_type
  /\ reparsed.body = fargs.content
  /\ fargs.content = CONTENT_K1 => reparsed.json = JObj((<<107>> :> JNum(1)))
  /\ fargs.content = BODY_FULL => reparsed.json # None

-----------------------------------------------------------------------------
(* Properties of the commands of one session, checked under Spec.           *)

\* the frame build_frame gives for a command of the session with number n
FrameFor(cmd_type, content, n) ==
  Cached(SentFrames, <<POST, cmd_type, content, n>>,
         build_frame(POST, cmd_type, content, VERSION_1, n))

\* ev is the record of one send_command call that waits for its response, on
\* an open transport, for the frame with number n: the write of that frame;
\* after a full write the drain, the settle delay and the timed read, in this
\* order; after a read that returned bytes the parse of those bytes.
ExchangeInOrder(ev, n) ==
  /\ Len(ev) >= 1
  /\ ev[1].e = "write"
  /\ ev[1].ack = n
  /\ \E c \in Commands :
       /\ c.cmd_type = ev[1].cmd_type
       /\ ev[1].frame = FrameFor(c.cmd_type, c.content, n)
  /\ IF ev[1].written # Len(ev[1].frame) THEN Len(ev) = 1
     ELSE /\ Len(ev) \in {4, 5}
          /\ ev[2] = EvDrain
          /\ ev[3] = EvSleep(SETTLE_MS)
          /\ ev[4].e = "read"
          /\ Len(ev) = 4 <=> ev[4].response = <<>>
          /\ Len(ev) = 5 => ev[5] = EvParse(ev[4].response)

\* what the send_command call with record ev returned
OutcomeOf(ev) ==
  IF ev[Len(ev)].e = "parse" THEN parse_response(ev[Len(ev)].bytes) ELSE None

\* the positions of the writes among the events of the last operation
LastWrites == {i \in 1..Len(last.events) : last.events[i].e = "write"}

\* C14: set_screen_config on a connected session issues exactly two
\* waterBlockScreenId commands of the same content with consecutive
\* acknowledgment numbers, the second after the first exchange has finished
\* and the pause has elapsed, and returns the outcome of the second only.
C14_TwoSendsSecondOutcome ==
  (last.op = "set_screen_config" /\ last.fdBefore >= 0) =>
    /\ Cardinality(LastWrites) = 2
    /\ \E k \in LastWrites \ {1} :
         LET first == SubSeq(last.events, 1, k - 2)
             second == SubSeq(last.events, k, Len(last.events))
         IN /\ 1 \in LastWrites
            /\ ExchangeInOrder(first, last.seqBefore + 1)
            /\ last.events[k - 1] = EvSleep(SETTLE_MS)
            /\ ExchangeInOrder(second, last.seqBefore + 2)
            /\ \E config \in ScreenConfigs :
                 /\ first[1].frame = FrameFor(WATER_BLOCK_SCREEN_ID,
                                              ScreenConfigText(config), last.seqBefore + 1)
                 /\ second[1].frame = FrameFor(WATER_BLOCK_SCREEN_ID,
                                               ScreenConfigText(config), last.seqBefore + 2)
            /\ first[1].cmd_type = WATER_BLOCK_SCREEN_ID
            /\ second[1].cmd_type = WATER_BLOCK_SCREEN_ID
            /\ last.ret = OutcomeOf(second)
    /\ seq_number_ = last.seqBefore + 2

\* the first write failed and the second send returned a response
C14_FirstFailedSecondAnswered ==
  /\ last.op = "set_screen_config"
  /\ last.fdBefore >= 0
  /\ last.events[1].written # Len(last.events[1].frame)
  /\ last.ret # None

\* C15: a send_command that waits returns nothing if the timed read gave no
\* bytes or parse_response rejected them, and otherwise exactly the Response
\* parse_response made of the bytes read.
C15_ReturnsWhatWasParsed ==
  (/\ last.op \in {"set_brightness", "delete_media"}
   /\ \E i \in 1..Len(last.events) : last.events[i].e = "read")
  => \A i \in 1..Len(last.events) :
       last.events[i].e = "read" =>
         last.ret = IF last.events[i].response = <<>> THEN None
                    ELSE parse_response(last.events[i].response)

\* a Response returned with empty body, version and status
C15_EmptyResponseReturned ==
  /\ last.op \in {"set_brightness", "delete_media"}
  /\ last.ret # None
  /\ last.ret.body = <<>>
  /\ last.ret.version = <<>>
  /\ last.ret.status = <<>>

\* C16: a send_command that does not wait returns nothing after the complete
\* write and the drain: it neither sleeps nor reads.
C16_NoWaitNoRead ==
  (/\ last.op = "send_command"
   /\ last.fdBefore >= 0
   /\ last.events[1].written = Len(last.events[1].frame))
  => /\ Len(last.events) = 2
     /\ last.events[1].e = "write"
     /\ last.events[2] = EvDrain
     /\ last.ret = None
     /\ \A i \in 1..Len(last.events) : last.events[i].e \notin {"sleep", "read", "parse"}

\* a fully written command sent without waiting
C16_SentWithoutWaiting ==
  /\ last.op = "send_command"
  /\ last.fdBefore >= 0
  /\ last.events[1].written = Len(last.events[1].frame)
  /\ wire[Len(wire)].full

\* C20: within one send_command call that waits, the steps happen in the
\* order sequence increment, frame build, full write, drain, settle delay,
\* timed read, parse; the read comes only after the full write and the drain.
C20_StepsInOrder ==
  (last.op \in {"handshake", "set_brightness", "delete_media"} /\ last.fdBefore >= 0) =>
    /\ ExchangeInOrder(last.events, last.seqBefore + 1)
    /\ seq_number_ = last.seqBefore + 1
    /\ \A i \in 1..Len(last.events) :
         last.events[i].e = "read" =>
           /\ \E j \in 1..(i - 1) :
                /\ last.events[j].e = "write"
                /\ last.events[j].written = Len(last.events[j].frame)
           /\ \E j \in 1..(i - 1) : last.events[j] = EvDrain

\* a call that went through every step, up to the parse
C20_AllStepsTaken ==
  /\ last.op \in {"handshake", "set_brightness", "delete_media"}
  /\ last.fdBefore >= 0
  /\ Len(last.events) = 5
  /\ last.events[5].e = "parse"

-----------------------------------------------------------------------------
(* Properties of the timed read, checked under SpecRead.                    *)

\* the chunks one after the other
Concat(cs) ==
  LET push(acc, i) == acc \o cs[i]
  IN ForRange(push, <<>>, 1, Len(cs))

\* C17: the timed read terminates for every device behaviour: the loop exits
\* at the latest when the elapsed time has reached the timeout, and the call
\* returns the accumulator.
C17_TimedReadReturns ==
  <>(/\ returned # None
     /\ returned.bytes = rloop.response
     /\ rloop.elapsed <= rtimeout)

\* a call that ended at the deadline after reads that formed no frame and
\* polls that gave no data
C17_DeadlineAfterStream ==
  /\ returned # None
  /\ rloop.ev = "deadline"
  /\ rloop.reads >= 2
  /\ rloop.polls > rloop.reads
  /\ returned.bytes # <<>>

\* C18: the loop stops before the deadline exactly when, right after a chunk
\* was appended, the accumulator has at least 2 bytes and begins and ends
\* with the marker; a single marker byte does not stop it, and besides the
\* deadline and a poll error other than an interruption nothing else does.
C18_StopsOnFrameOnly ==
  LET appended == rloop.ev = "data"
      framed == /\ Len(rloop.response) >= 2
                /\ rloop.response[1] = 90
                /\ rloop.response[Len(rloop.response)] = 90
  IN /\ rloop.done <=> \/ rloop.ev = "deadline"
                       \/ rloop.ev = "error"
                       \/ appended /\ framed
     /\ rloop.ev = "deadline" => rloop.elapsed >= rtimeout
     /\ rloop.response = <<90>> => rloop.ev # "data" \/ ~rloop.done

\* the loop went on after a single marker byte and stopped, before the
\* deadline, at the chunk that closed the frame
C18_StoppedAtSecondMarker ==
  /\ rloop.done
  /\ rloop.ev = "data"
  /\ rloop.elapsed < rtimeout
  /\ Len(chunks) >= 2
  /\ chunks[1] = <<90>>

\* C19: the bytes returned are the chunks read from the handle during the
\* call, one after the other in the order they arrived; at the deadline the
\* partial accumulation, possibly empty, is what is returned.
C19_ReturnsChunksInOrder ==
  /\ rloop.response = Concat(chunks)
  /\ returned # None => returned.bytes = Concat(chunks)

\* a call that ended at the deadline and returned the three chunks read
C19_PartialReturnedAtDeadline ==
  /\ returned # None
  /\ rloop.ev = "deadline"
  /\ Len(chunks) = 3
  /\ chunks[1] # chunks[2]
  /\ returned.bytes = chunks[1] \o chunks[2] \o chunks[3]

-----------------------------------------------------------------------------
(* Failure paths of one session, checked under Spec.                        *)

\* the operations that are one send_command call
SingleSendOps == {"handshake", "set_brightness", "delete_media", "send_command"}

\* C21: when write accepts fewer bytes than the frame has, or fails,
\* send_command returns nothing and does no drain, no settle delay and no
\* read for that command.
C21_IncompleteWriteEndsTheCall ==
  (/\ last.op \in SingleSendOps
   /\ last.fdBefore >= 0
   /\ last.events[1].written # Len(last.events[1].frame))
  => /\ Len(last.events) = 1
     /\ last.events[1].e = "write"
     /\ last.ret = None
     /\ \A i \in 1..Len(last.events) :
          last.events[i].e \notin {"drain", "sleep", "read", "parse"}

\* a command that waits for its response, whose write was accepted short of
\* one byte
C21_ShortWrite ==
  /\ last.op = "set_brightness"
  /\ last.fdBefore >= 0
  /\ last.events[1].written = Len(last.events[1].frame) - 1

\* C22: a connect that fails, started from a disconnected session, leaves
\* the session disconnected and no handle open that was not open before: the
\* handle opened during the attempt has been closed, once, when connect
\* returns false.
C22_FailedConnectLeavesNothingOpen ==
  [][(/\ last'.op = "connect"
      /\ last'.ret = FALSE
      /\ fd_ < 0)
     => /\ fd_' = -1
        /\ handles'.open = handles.open
        /\ \A fd \in handles.next..(handles'.next - 1) : handles'.closes[fd] = 1]_vars

\* a failed connect on a disconnected session after which the one handle
\* ever opened is closed
C22_ConfigureFailed ==
  /\ last.op = "connect"
  /\ last.ret = FALSE
  /\ last.fdBefore < 0
  /\ fd_ = -1
  /\ handles.next = 1
  /\ handles.closes[0] = 1
  /\ handles.open = {}
  /\ wire = <<>>

-----------------------------------------------------------------------------
(* Properties of parse_response, checked under SpecParse.                   *)

\* the unescaped interior of the bytes
PayloadOf(d) == unescape_data(SubSeq(d, 2, Len(d) - 1))

\* the message text of a frame: the interior without length and checksum
MessageOf(d) == SubSeq(PayloadOf(d), 3, Len(PayloadOf(d)) - 1)

\* the input is shorter than 4 bytes, or does not begin and end with the
\* marker, or its unescaped interior is shorter than 3 bytes
Malformed(d) ==
  \/ Len(d) < 4
  \/ d[1] # 90
  \/ d[Len(d)] # 90
  \/ Len(PayloadOf(d)) < 3

\* C23: parse_response returns nothing if and only if the input is shorter
\* than 4 bytes, or its first or last byte is not the marker, or the
\* unescaped interior is shorter than 3 bytes; for every other input it
\* returns a Response, with empty body, version and status when the message
\* has no separator.
C23_RejectsExactlyMalformed ==
  rxstage # "received" =>
    /\ rxparsed = None <=> Malformed(rxframe)
    /\ (~Malformed(rxframe) /\ FindFrom(MessageOf(rxframe), SEPARATOR, 1) = 0) =>
         /\ rxparsed.raw = MessageOf(rxframe)
         /\ rxparsed.body = <<>>
         /\ rxparsed.version = <<>>
         /\ rxparsed.status = <<>>
         /\ rxparsed.json = None

\* a Response for a text without separator
C23_TextWithoutSeparator ==
  /\ rxstage = "parsed"
  /\ rxparsed # None
  /\ rxparsed.raw = TEXT_NO_SEPARATOR
  /\ rxparsed.version = <<>>

\* the two interiors have the same length and differ at most in the first
\* two bytes and the last byte
SameMessageBytes(p, q) ==
  /\ Len(p) = Len(q)
  /\ \A i \in 3..(Len(p) - 1) : p[i] = q[i]

\* C26: parse_response ignores the length prefix and the checksum: two
\* well-framed inputs whose unescaped interiors differ only in the first two
\* bytes and the last byte yield the same Response, so a frame with a wrong
\* checksum is accepted like a correct one.
C26_LengthAndChecksumIgnored ==
  (/\ rxstage = "compared"
   /\ ~Malformed(rxframe)
   /\ ~Malformed(rxother)
   /\ SameMessageBytes(PayloadOf(rxframe), PayloadOf(rxother)))
  => /\ rxotherparsed # None
     /\ rxotherparsed = rxparsed

\* a reply of the device with a body, and the same reply with length bytes
\* and a checksum that are wrong, parsed to the same Response
C26_WrongChecksumAccepted ==
  /\ rxstage = "compared"
  /\ rxframe = DeviceReply(BODY_PRODUCT_ONLY)
  /\ PayloadOf(rxother) # PayloadOf(rxframe)
  /\ PayloadOf(rxother)[Len(PayloadOf(rxother))]
       # calculate_crc(SubSeq(PayloadOf(rxother), 1, Len(PayloadOf(rxother)) - 1))
  /\ rxotherparsed # None
  /\ rxotherparsed.body = BODY_PRODUCT_ONLY

-----------------------------------------------------------------------------
(* Length and checksum of the frames build_frame returns.                   *)

\* the sum of the bytes
SumOf(s) ==
  LET add(acc, i) == acc + s[i]
  IN ForRange(add, 0, 1, Len(s))

\* C25: in every frame build_frame returns, the last byte of the unescaped
\* interior is the sum modulo 256 of all the unescaped interior bytes before
\* it; the checksum is taken before escaping and is escaped itself when it is
\* the marker or the escape value.
C25_ChecksumOfUnescapedBytes ==
  fstage \in {"built", "parsed"} =>
    LET payload == unescape_data(Interior)
        crc == payload[Len(payload)]
        tail == SubSeq(built, Len(built) - 2, Len(built))
    IN /\ Len(payload) >= 3
       /\ crc = SumOf(SubSeq(payload, 1, Len(payload) - 1)) % 256
       /\ crc = 90 => tail = <<91, 1, 90>>
       /\ crc = 91 => tail = <<91, 2, 90>>

\* a frame whose checksum is the marker value and stands escaped before the
\* closing marker
C25_ChecksumIsMarker ==
  /\ fstage = "built"
  /\ SubSeq(built, Len(built) - 2, Len(built)) = <<91, 1, 90>>
  /\ RawOf(fargs)[Len(RawOf(fargs))] = 90

\* C24: the 2-byte big-endian length prefix build_frame writes equals the
\* byte length of header and content plus 5, for every content size.
C24_PrefixIsSizePlusFive ==
  lstage = "prefixed" =>
    /\ Len(lprefix) = 2
    /\ lprefix[1] * 256 + lprefix[2] = msize + 5

\* the same for the messages whose length plus 5 is a uint16_t
C24_PrefixIsSizePlusFiveInRange ==
  (lstage = "prefixed" /\ msize + 5 < UINT16_RANGE) =>
    /\ Len(lprefix) = 2
    /\ lprefix[1] * 256 + lprefix[2] = msize + 5

\* the prefix of the largest message whose length plus 5 is a uint16_t
C24_LargestInRange ==
  /\ lstage = "prefixed"
  /\ msize + 5 = UINT16_RANGE - 1
  /\ lprefix = <<255, 255>>

-----------------------------------------------------------------------------
(* Properties of the keepalive loop, checked under SpecKeep.                *)

\* C27: a signal that arrives while a handshake is in flight lets that
\* handshake complete, and the loop exits without starting another; a
\* signal that arrives during the sleep makes the loop exit without any
\* further handshake; in both cases the loop terminates once the flag is
\* cleared.
C27_LoopStopsAfterSignal ==
  /\ [](/\ sigpc = "in_flight" => beats <= sigbeats + 1
        /\ (sigpc = "in_flight" /\ kpc = "exit") => beats = sigbeats + 1
        /\ sigpc = "sleep" => (beats = sigbeats /\ kpc # "in_flight")
        /\ kpc = "exit" => ~g_running)
  /\ (~g_running ~> kpc = "exit")

\* the loop has exited after a signal that arrived during its second
\* handshake, which was written in full
C27_ExitAfterHandshakeInFlight ==
  /\ kpc = "exit"
  /\ sigpc = "in_flight"
  /\ sigbeats = 1
  /\ beats = 2
  /\ Len(wire) = SentBeforeLoop + 2
  /\ wire[Len(wire)].full

=============================================================================
